---- MODULE Spec2Model ----
(***************************************************************************)
(* Normalization engine and ingestion driver of the Distributed Colony BI  *)
(* scripts: the histogram summarizers, the snapshot-row and event-row      *)
(* normalizers, read_s3_json, the listing functions and main /             *)
(* process_colony of src/bi/ingest_bi.py, and their counterparts in        *)
(* src/analysis/stats_shots_to_parquet.py.                                 *)
(*                                                                         *)
(* Parsed JSON values are tagged records.  A mapping keeps its entries in  *)
(* insertion order, as a Python dict does, as a sequence of <<key, value>> *)
(* pairs.  Floats are exact rationals n/d in lowest terms with d > 0.      *)
(* The object store is the environment of the driver: what a listing or a  *)
(* get_object call returns is chosen when the call is made.                *)
(***************************************************************************)
EXTENDS Integers, Sequences, FiniteSets, TLC

VARIABLES
    event,              \* event_to_row: the parsed event object
    hist,               \* the histogram object handed to a summarizer
    use_hist_average,   \* _summarize_numeric_hist: the use_hist_average flag
    snapshot,           \* snapshot_to_row: the parsed stats-shot object
    row,                \* the dict the call returned (<<>> before / on a raise)
    outcome,            \* "pending" | "returned" | "raised"
    script,             \* "ingest_bi" | "stats_shots_to_parquet"
    upload,             \* main: args.upload
    colony_ids,         \* main: the colonies to process, in order
    pc,                 \* where main / process_colony stands
    ci,                 \* main: index in colony_ids of the colony in progress
    keys,               \* process_colony: the listed keys not yet read
    rows,               \* process_colony: stats_rows / event_rows so far
    listed,             \* every per-colony listing of the run, in order
    fetched,            \* every get_object call of the run, in order
    written,            \* the Parquet tables written locally in the run
    uploaded,           \* the Parquet tables uploaded in the run
    main_result,        \* what main returned: "running" | "0" | "1"
    error,              \* the exception main caught ("none" when none)
    objects,            \* the parsed objects a caller holds and normalizes
    calls,              \* every normalizer call on those objects, in order
    body,               \* read_s3_json: the bytes get_object returned
    decoded_by,         \* read_s3_json: "none" | "gzip" | "plain"
    document,           \* read_s3_json: the value it returned (None before)
    exception           \* read_s3_json: the exception it raised ("none")

\* the variables of one normalizer or summarizer call
call_vars == <<event, hist, use_hist_average, snapshot, row, outcome>>

\* the variables of the ingestion driver
driver_vars == <<upload, colony_ids, pc, ci, keys, rows, listed, fetched, written, uploaded, main_result, error>>

\* the variables of a caller that normalizes the objects it holds
repeat_vars == <<objects, calls>>

\* the variables of one read_s3_json call
read_vars == <<body, decoded_by, document, exception>>

vars == <<call_vars, script, driver_vars, repeat_vars, read_vars>>

\* no object is held and no object is being read
NoObjects ==
    /\ objects = <<>>
    /\ calls = <<>>
    /\ body = <<>>
    /\ decoded_by = "none"
    /\ document = [t |-> "null"]
    /\ exception = "none"

\* no driver is running: a normalizer is called on its own
DriverIdle ==
    /\ upload = FALSE
    /\ colony_ids = <<>>
    /\ pc = "idle"
    /\ ci = 0
    /\ keys = <<>>
    /\ rows = <<>>
    /\ listed = <<>>
    /\ fetched = <<>>
    /\ written = {}
    /\ uploaded = {}
    /\ main_result = "running"
    /\ error = "none"

(***************************************************************************)
(* Parsed JSON / Python values                                             *)
(***************************************************************************)
None == [t |-> "null"]

PyInt(n) == [t |-> "int", v |-> n]

PyStr(s) == [t |-> "str", v |-> s]

PyBool(b) == [t |-> "bool", v |-> b]

PyList(s) == [t |-> "list", v |-> s]

PyDict(s) == [t |-> "dict", v |-> s]

EmptyDict == PyDict(<<>>)

RECURSIVE Gcd(_, _)
Gcd(a, b) == IF b = 0 THEN a ELSE Gcd(b, a % b)

Abs(n) == IF n < 0 THEN -n ELSE n

\* A float as the exact rational n/d, reduced, d > 0.
PyFloat(n, d) ==
    LET g == Gcd(Abs(n), Abs(d))
        s == IF d < 0 THEN -1 ELSE 1
    IN  [t |-> "float", n |-> (s * n) \div g, d |-> (s * d) \div g]

isinstance_dict(x) == x.t = "dict"

isinstance_list(x) == x.t = "list"

\* key in d
dict_has(d, k) == \E i \in DOMAIN d.v : d.v[i][1] = k

\* d.get(k): the value under k, None when the key is missing
dict_get(d, k) ==
    IF dict_has(d, k)
    THEN d.v[CHOOSE i \in DOMAIN d.v : d.v[i][1] = k][2]
    ELSE None

\* d.get(k, default)
dict_get_default(d, k, default) ==
    IF dict_has(d, k)
    THEN d.v[CHOOSE i \in DOMAIN d.v : d.v[i][1] = k][2]
    ELSE default

\* Python truthiness: bool(x)
truthy(x) ==
    CASE x.t = "null"  -> FALSE
      [] x.t = "int"   -> x.v # 0
      [] x.t = "float" -> x.n # 0
      [] x.t = "str"   -> x.v # ""
      [] x.t = "bool"  -> x.v
      [] x.t = "list"  -> Len(x.v) > 0
      [] x.t = "dict"  -> Len(x.v) > 0

\* x or {}
or_empty_dict(x) == IF truthy(x) THEN x ELSE EmptyDict

(***************************************************************************)
(* Text rendering: str(x) and json.dumps(x)                                *)
(***************************************************************************)
Digit(d) ==
    CASE d = 0 -> "0" [] d = 1 -> "1" [] d = 2 -> "2" [] d = 3 -> "3"
      [] d = 4 -> "4" [] d = 5 -> "5" [] d = 6 -> "6" [] d = 7 -> "7"
      [] d = 8 -> "8" [] d = 9 -> "9"

RECURSIVE NatText(_)
NatText(n) == IF n < 10 THEN Digit(n) ELSE NatText(n \div 10) \o Digit(n % 10)

IntText(n) == IF n < 0 THEN "-" \o NatText(-n) ELSE NatText(n)

\* repr of a float whose denominator is 1, 2 or 4 (all the model draws)
FloatText(x) ==
    LET a == Abs(x.n)
        q == a \div x.d
        r == a % x.d
        frac == CASE x.d = 1 -> "0"
                  [] x.d = 2 -> "5"
                  [] x.d = 4 /\ r = 1 -> "25"
                  [] x.d = 4 /\ r = 3 -> "75"
    IN  (IF x.n < 0 THEN "-" ELSE "") \o NatText(q) \o "." \o frac

RECURSIVE py_repr(_, _)
RECURSIVE repr_items(_, _, _)
RECURSIVE repr_pairs(_, _, _)

\* repr(x) when json = FALSE, json.dumps(x) when json = TRUE
py_repr(x, json) ==
    CASE x.t = "null"  -> IF json THEN "null" ELSE "None"
      [] x.t = "int"   -> IntText(x.v)
      [] x.t = "float" -> FloatText(x)
      [] x.t = "str"   -> IF json THEN "\"" \o x.v \o "\"" ELSE "'" \o x.v \o "'"
      [] x.t = "bool"  -> IF json THEN (IF x.v THEN "true" ELSE "false")
                                  ELSE (IF x.v THEN "True" ELSE "False")
      [] x.t = "list"  -> "[" \o repr_items(x.v, 1, json) \o "]"
      [] x.t = "dict"  -> "{" \o repr_pairs(x.v, 1, json) \o "}"

repr_items(s, i, json) ==
    IF i > Len(s) THEN ""
    ELSE py_repr(s[i], json) \o (IF i < Len(s) THEN ", " ELSE "")
         \o repr_items(s, i + 1, json)

repr_pairs(s, i, json) ==
    IF i > Len(s) THEN ""
    ELSE py_repr(PyStr(s[i][1]), json) \o ": " \o py_repr(s[i][2], json)
         \o (IF i < Len(s) THEN ", " ELSE "") \o repr_pairs(s, i + 1, json)

\* str(x): a string is rendered as itself, everything else by repr
py_str(x) == PyStr(IF x.t = "str" THEN x.v ELSE py_repr(x, FALSE))

\* json.dumps(x)
json_dumps(x) == PyStr(py_repr(x, TRUE))

(***************************************************************************)
(* Call results: a returned dict of columns, or an uncaught exception      *)
(***************************************************************************)
Returned(cols) == [raised |-> FALSE, cols |-> cols]

Raised == [raised |-> TRUE, cols |-> <<>>]

(***************************************************************************)
(* event_to_row                                                            *)
(***************************************************************************)
identity_columns(ev) ==
    [colony_id         |-> dict_get(ev, "colony_instance_id"),
     tick              |-> dict_get(ev, "tick"),
     event_type        |-> dict_get(ev, "event_type"),
     event_description |-> dict_get(ev, "event_description")]

rules_columns(rules) ==
    [rules_health_cost_per_size_unit  |-> dict_get(rules, "health_cost_per_size_unit"),
     rules_eat_capacity_per_size_unit |-> dict_get(rules, "eat_capacity_per_size_unit"),
     rules_health_cost_if_can_kill    |-> dict_get(rules, "health_cost_if_can_kill"),
     rules_health_cost_if_can_move    |-> dict_get(rules, "health_cost_if_can_move"),
     rules_mutation_chance            |-> dict_get(rules, "mutation_chance"),
     rules_random_death_chance        |-> dict_get(rules, "random_death_chance")]

null_region_columns ==
    [event_data_region_type     |-> None,
     event_data_region_x        |-> None,
     event_data_region_y        |-> None,
     event_data_region_radius_x |-> None,
     event_data_region_radius_y |-> None]

null_creature_columns ==
    [event_data_color_r         |-> None,
     event_data_color_g         |-> None,
     event_data_color_b         |-> None,
     event_data_traits_size     |-> None,
     event_data_traits_can_kill |-> None,
     event_data_traits_can_move |-> None,
     event_data_starting_health |-> None]

null_new_rules_columns ==
    [event_data_new_rules_health_cost_per_size_unit  |-> None,
     event_data_new_rules_eat_capacity_per_size_unit |-> None,
     event_data_new_rules_health_cost_if_can_kill    |-> None,
     event_data_new_rules_health_cost_if_can_move    |-> None,
     event_data_new_rules_mutation_chance            |-> None,
     event_data_new_rules_random_death_chance        |-> None]

type_and_value(type, value) ==
    [event_data_type |-> type, event_data_value |-> value]

\* event_data is None
absent_branch ==
    Returned(type_and_value(None, None) @@ null_region_columns
             @@ null_creature_columns @@ null_new_rules_columns)

\* "CreateCreature" in event_data: the region part
create_creature_region(create_data) ==
    LET region == IF isinstance_list(create_data) /\ Len(create_data.v) > 0
                  THEN create_data.v[1] ELSE EmptyDict
    IN  IF isinstance_dict(region) /\ dict_has(region, "Ellipse")
        THEN LET ellipse == dict_get(region, "Ellipse")
             IN  IF ~isinstance_dict(ellipse)
                 THEN Raised   \* ellipse.get on a non-dict: AttributeError
                 ELSE Returned(
                     [event_data_region_type     |-> PyStr("Ellipse"),
                      event_data_region_x        |-> dict_get(ellipse, "x"),
                      event_data_region_y        |-> dict_get(ellipse, "y"),
                      event_data_region_radius_x |-> dict_get(ellipse, "radius_x"),
                      event_data_region_radius_y |-> dict_get(ellipse, "radius_y")])
        ELSE Returned(null_region_columns)

\* "CreateCreature" in event_data: the creature params part
create_creature_params(create_data) ==
    LET params == IF isinstance_list(create_data) /\ Len(create_data.v) > 1
                  THEN create_data.v[2] ELSE EmptyDict
    IN  IF isinstance_dict(params)
        THEN LET color  == or_empty_dict(dict_get(params, "color"))
                 traits == or_empty_dict(dict_get(params, "traits"))
                 cget(k) == IF isinstance_dict(color) THEN dict_get(color, k) ELSE None
                 tget(k) == IF isinstance_dict(traits) THEN dict_get(traits, k) ELSE None
             IN  [event_data_color_r         |-> cget("r"),
                  event_data_color_g         |-> cget("g"),
                  event_data_color_b         |-> cget("b"),
                  event_data_traits_size     |-> tget("size"),
                  event_data_traits_can_kill |-> tget("can_kill"),
                  event_data_traits_can_move |-> tget("can_move"),
                  event_data_starting_health |-> dict_get(params, "starting_health")]
        ELSE null_creature_columns

\* "CreateCreature" in event_data.  The branch assigns no
\* event_data_new_rules_* key.
create_creature_branch(event_data) ==
    LET create_data == dict_get(event_data, "CreateCreature")
        region == create_creature_region(create_data)
    IN  IF region.raised THEN Raised
        ELSE Returned([event_data_type |-> PyStr("CreateCreature")]
                      @@ region.cols @@ create_creature_params(create_data)
                      @@ [event_data_value |-> None])

\* mutant: the value is stored as it came, without str()
change_extra_food_value_mut(event_data) ==
    dict_get(event_data, "ChangeExtraFoodPerTick")

\* str(event_data["ChangeExtraFoodPerTick"])
change_extra_food_value(event_data) ==
    py_str(dict_get(event_data, "ChangeExtraFoodPerTick"))

\* "ChangeExtraFoodPerTick" in event_data
change_extra_food_branch(event_data) ==
    Returned(type_and_value(PyStr("ChangeExtraFoodPerTick"),
                            change_extra_food_value(event_data))
             @@ null_region_columns @@ null_creature_columns
             @@ null_new_rules_columns)

\* mutant: the variant's (null) payload is rendered with str()
no_payload_type_and_value_mut(name) == type_and_value(PyStr(name), py_str(None))

\* the event_data_type and event_data_value of a variant without payload
no_payload_type_and_value(name) == type_and_value(PyStr(name), None)

\* "Extinction" in event_data / "NewTopography" in event_data
no_payload_branch(name) ==
    Returned(no_payload_type_and_value(name) @@ null_region_columns
             @@ null_creature_columns @@ null_new_rules_columns)

\* mutant: the branch forgets to null event_data_starting_health
change_colony_rules_tail_mut ==
    null_region_columns
        @@ [c \in DOMAIN null_creature_columns \ {"event_data_starting_health"}
               |-> None]

\* the columns the ChangeColonyRules branch nulls after the new rules
change_colony_rules_tail == null_region_columns @@ null_creature_columns

\* "ChangeColonyRules" in event_data
change_colony_rules_branch(event_data) ==
    LET change_data == dict_get(event_data, "ChangeColonyRules")
        new_rules == or_empty_dict(dict_get(change_data, "new_rules"))
        tail == change_colony_rules_tail
    IN  IF isinstance_dict(change_data)
        THEN IF ~isinstance_dict(new_rules)
             THEN Raised   \* new_rules.get on a non-dict: AttributeError
             ELSE Returned(
                 type_and_value(PyStr("ChangeColonyRules"),
                                dict_get(change_data, "description"))
                 @@ [event_data_new_rules_health_cost_per_size_unit |->
                         dict_get(new_rules, "health_cost_per_size_unit"),
                     event_data_new_rules_eat_capacity_per_size_unit |->
                         dict_get(new_rules, "eat_capacity_per_size_unit"),
                     event_data_new_rules_health_cost_if_can_kill |->
                         dict_get(new_rules, "health_cost_if_can_kill"),
                     event_data_new_rules_health_cost_if_can_move |->
                         dict_get(new_rules, "health_cost_if_can_move"),
                     event_data_new_rules_mutation_chance |->
                         dict_get(new_rules, "mutation_chance"),
                     event_data_new_rules_random_death_chance |->
                         dict_get(new_rules, "random_death_chance")]
                 @@ tail)
        ELSE Returned(type_and_value(PyStr("ChangeColonyRules"), None)
                      @@ null_new_rules_columns @@ tail)

\* mutant: the payload is serialized without the emptiness test
unknown_value_mut(event_data) == json_dumps(event_data)

\* json.dumps(event_data) if event_data else None
unknown_value(event_data) ==
    IF truthy(event_data) THEN json_dumps(event_data) ELSE None

\* a dict with none of the known keys
unknown_branch(event_data) ==
    Returned(type_and_value(PyStr("Unknown"), unknown_value(event_data))
             @@ null_region_columns @@ null_creature_columns
             @@ null_new_rules_columns)

\* event_data is neither None nor a dict
simple_value_branch(event_data) ==
    Returned(type_and_value(None, py_str(event_data))
             @@ null_region_columns @@ null_creature_columns
             @@ null_new_rules_columns)

\* mutant: ChangeColonyRules is tested for before the two no-payload keys
event_data_columns_mut(event_data) ==
    IF event_data.t = "null" THEN absent_branch
    ELSE IF isinstance_dict(event_data)
    THEN IF dict_has(event_data, "CreateCreature")
         THEN create_creature_branch(event_data)
         ELSE IF dict_has(event_data, "ChangeExtraFoodPerTick")
         THEN change_extra_food_branch(event_data)
         ELSE IF dict_has(event_data, "ChangeColonyRules")
         THEN change_colony_rules_branch(event_data)
         ELSE IF dict_has(event_data, "Extinction")
         THEN no_payload_branch("Extinction")
         ELSE IF dict_has(event_data, "NewTopography")
         THEN no_payload_branch("NewTopography")
         ELSE unknown_branch(event_data)
    ELSE simple_value_branch(event_data)

\* the if / elif chain over event_data
event_data_columns(event_data) ==
    IF event_data.t = "null" THEN absent_branch
    ELSE IF isinstance_dict(event_data)
    THEN IF dict_has(event_data, "CreateCreature")
         THEN create_creature_branch(event_data)
         ELSE IF dict_has(event_data, "ChangeExtraFoodPerTick")
         THEN change_extra_food_branch(event_data)
         ELSE IF dict_has(event_data, "Extinction")
         THEN no_payload_branch("Extinction")
         ELSE IF dict_has(event_data, "NewTopography")
         THEN no_payload_branch("NewTopography")
         ELSE IF dict_has(event_data, "ChangeColonyRules")
         THEN change_colony_rules_branch(event_data)
         ELSE unknown_branch(event_data)
    ELSE simple_value_branch(event_data)

event_to_row(ev) ==
    LET rules == or_empty_dict(dict_get(ev, "rules"))
        data  == event_data_columns(dict_get(ev, "event_data"))
    IN  IF ~isinstance_dict(rules) THEN Raised   \* rules.get: AttributeError
        ELSE IF data.raised THEN Raised
        ELSE Returned(identity_columns(ev) @@ rules_columns(rules) @@ data.cols)

(***************************************************************************)
(* Event objects handed to event_to_row                                    *)
(***************************************************************************)
\* marks a key that the object does not carry
Absent == [t |-> "absent"]

\* the dict with the given <<key, value>> entries, Absent ones left out
dict_of(pairs) == PyDict(SelectSeq(pairs, LAMBDA p : p[2].t # "absent"))

FullRules ==
    PyDict(<< <<"health_cost_per_size_unit", PyInt(1)>>,
              <<"eat_capacity_per_size_unit", PyInt(2)>>,
              <<"health_cost_if_can_kill", PyInt(3)>>,
              <<"health_cost_if_can_move", PyInt(4)>>,
              <<"mutation_chance", PyInt(5)>>,
              <<"random_death_chance", PyInt(6)>> >>)

PartialRules == PyDict(<< <<"mutation_chance", PyInt(5)>> >>)

RulesValues == {Absent, None, FullRules, PartialRules, PyInt(0), PyInt(5)}

ColonyIdValues == {Absent, PyStr("c1")}

FullEllipse ==
    PyDict(<< <<"x", PyInt(1)>>, <<"y", PyInt(2)>>,
              <<"radius_x", PyInt(3)>>, <<"radius_y", PyInt(4)>> >>)

EllipseValues == {FullEllipse, PyDict(<< <<"x", PyInt(1)>> >>), None, PyInt(7)}

RegionValues ==
    {PyDict(<< <<"Ellipse", e>> >>) : e \in EllipseValues}
        \cup {EmptyDict, None, PyStr("all")}

ColorValues ==
    {Absent, None, PyInt(5),
     PyDict(<< <<"r", PyInt(255)>>, <<"g", PyInt(0)>>, <<"b", PyInt(10)>> >>)}

TraitsValues ==
    {Absent, PyStr("big"),
     PyDict(<< <<"size", PyInt(2)>>, <<"can_kill", PyBool(TRUE)>>,
               <<"can_move", PyBool(FALSE)>> >>)}

ParamsValues ==
    {dict_of(<< <<"color", c>>, <<"traits", tr>>, <<"starting_health", h>> >>) :
        c \in ColorValues, tr \in TraitsValues, h \in {Absent, PyInt(9)}}
        \cup {None, PyInt(3)}

CreateDataValues ==
    {None, PyInt(3), PyList(<<>>)}
        \cup {PyList(<<r>>) : r \in RegionValues}
        \cup {PyList(<<r, p>>) : r \in RegionValues, p \in ParamsValues}

ExtraFoodValues ==
    {PyInt(3), PyInt(0), PyInt(12), PyFloat(5, 2), PyStr("7"), None, PyBool(TRUE),
     PyList(<<PyInt(1), PyStr("a")>>), PyDict(<< <<"a", PyInt(1)>> >>)}

ChangeDataValues ==
    {dict_of(<< <<"description", d>>, <<"new_rules", n>> >>) :
        d \in {Absent, PyStr("harsher"), PyInt(4)},
        n \in {Absent, None, FullRules, PartialRules, PyInt(5)}}
        \cup {None, PyStr("x")}

FullCreateData ==
    PyList(<<PyDict(<< <<"Ellipse", FullEllipse>> >>),
             PyDict(<< <<"starting_health", PyInt(9)>> >>)>>)

FullChangeData ==
    PyDict(<< <<"description", PyStr("harsher")>>, <<"new_rules", FullRules>> >>)

\* one entry for each known variant key
VariantEntries ==
    {<<"CreateCreature", FullCreateData>>, <<"ChangeExtraFoodPerTick", PyInt(3)>>,
     <<"Extinction", None>>, <<"NewTopography", None>>,
     <<"ChangeColonyRules", FullChangeData>>}

\* payloads carrying more than one of the known variant keys: every ordered
\* pair of them, all five, and a known key after an unknown one
MultiKeyValues ==
    {PyDict(<<p[1], p[2]>>) :
        p \in {q \in VariantEntries \X VariantEntries : q[1] # q[2]}}
        \cup
    {PyDict(<< <<"ChangeColonyRules", FullChangeData>>, <<"NewTopography", None>>,
               <<"Extinction", None>>, <<"ChangeExtraFoodPerTick", PyInt(3)>>,
               <<"CreateCreature", FullCreateData>> >>),
     PyDict(<< <<"NewTopography", None>>, <<"ChangeColonyRules", FullChangeData>>,
               <<"Extinction", None>> >>)}
        \cup
    {PyDict(<< <<"ChangeColonyRules", FullChangeData>>,
               <<"CreateCreature", FullCreateData>> >>),
     PyDict(<< <<"ChangeColonyRules", FullChangeData>>,
               <<"ChangeExtraFoodPerTick", PyInt(3)>> >>),
     PyDict(<< <<"NewTopography", None>>, <<"Extinction", None>> >>),
     PyDict(<< <<"ChangeColonyRules", FullChangeData>>,
               <<"NewTopography", None>> >>),
     PyDict(<< <<"Foo", PyInt(1)>>, <<"ChangeColonyRules", FullChangeData>> >>)}

UnknownValues ==
    {EmptyDict,
     PyDict(<< <<"Foo", PyInt(1)>> >>),
     PyDict(<< <<"Foo", PyDict(<< <<"bar", PyStr("x")>> >>)>>,
               <<"n", PyList(<<PyInt(1), PyBool(TRUE), None>>)>> >>)}

SimpleValues ==
    {PyInt(5), PyInt(0), PyFloat(5, 2), PyStr("s"), PyStr(""), PyBool(TRUE),
     PyBool(FALSE), PyList(<<>>), PyList(<<PyInt(1), PyStr("a")>>)}

EventDataValues ==
    {Absent, None}
        \cup {PyDict(<< <<"CreateCreature", c>> >>) : c \in CreateDataValues}
        \cup {PyDict(<< <<"ChangeExtraFoodPerTick", x>> >>) : x \in ExtraFoodValues}
        \cup {PyDict(<< <<"Extinction", None>> >>),
              PyDict(<< <<"NewTopography", None>> >>)}
        \cup {PyDict(<< <<"ChangeColonyRules", c>> >>) : c \in ChangeDataValues}
        \cup MultiKeyValues \cup UnknownValues \cup SimpleValues

Events ==
    {dict_of(<< <<"colony_instance_id", c>>, <<"tick", PyInt(7)>>,
                <<"event_type", PyStr("Event")>>,
                <<"event_description", PyStr("something happened")>>,
                <<"rules", r>>, <<"event_data", d>> >>) :
        c \in ColonyIdValues, r \in RulesValues, d \in EventDataValues}

(***************************************************************************)
(* Specification of one event_to_row call                                  *)
(***************************************************************************)
InitEvent ==
    /\ event \in Events
    /\ hist = None
    /\ use_hist_average = TRUE
    /\ snapshot = None
    /\ row = <<>>
    /\ outcome = "pending"
    /\ script = "ingest_bi"
    /\ DriverIdle
    /\ NoObjects

EventToRow ==
    /\ outcome = "pending"
    /\ isinstance_dict(event)
    /\ LET r == event_to_row(event)
       IN  /\ row' = r.cols
           /\ outcome' = IF r.raised THEN "raised" ELSE "returned"
    /\ UNCHANGED <<event, hist, use_hist_average, snapshot, script, driver_vars, repeat_vars, read_vars>>

NextEvent == EventToRow

SpecEvent == InitEvent /\ [][NextEvent]_vars

(***************************************************************************)
(* Number conversions and exact float arithmetic                           *)
(***************************************************************************)
\* largest magnitude of a number written in a histogram key or count
MaxValue == 3

\* the integers a numeric text of the model can denote
TextRange == (0 - MaxValue - 1) .. (MaxValue + 1)

Converted(x) == [ok |-> TRUE, val |-> x]

ConversionError == [ok |-> FALSE, val |-> None]

\* float(s) for a string s: the number whose text s is, ValueError otherwise
float_of_text(s) ==
    IF \E n \in TextRange : IntText(n) = s
    THEN Converted(PyFloat(CHOOSE n \in TextRange : IntText(n) = s, 1))
    ELSE IF \E n \in TextRange, d \in {1, 2, 4} : FloatText(PyFloat(n, d)) = s
    THEN Converted(CHOOSE x \in {PyFloat(n, d) : n \in TextRange, d \in {1, 2, 4}} :
                       FloatText(x) = s)
    ELSE ConversionError

\* float(x): TypeError for None, list, dict; ValueError for a non-numeric text
py_float(x) ==
    CASE x.t = "int"   -> Converted(PyFloat(x.v, 1))
      [] x.t = "float" -> Converted(x)
      [] x.t = "bool"  -> Converted(PyFloat(IF x.v THEN 1 ELSE 0, 1))
      [] x.t = "str"   -> float_of_text(x.v)
      [] OTHER         -> ConversionError

\* int(x): floats truncate toward zero, texts must be integer literals
py_int(x) ==
    CASE x.t = "int"   -> Converted(x.v)
      [] x.t = "float" -> Converted(IF x.n < 0 THEN -((-x.n) \div x.d)
                                    ELSE x.n \div x.d)
      [] x.t = "bool"  -> Converted(IF x.v THEN 1 ELSE 0)
      [] x.t = "str"   -> IF \E n \in TextRange : IntText(n) = x.v
                          THEN Converted(CHOOSE n \in TextRange : IntText(n) = x.v)
                          ELSE ConversionError
      [] OTHER         -> ConversionError

float_add(a, b) == PyFloat(a.n * b.d + b.n * a.d, a.d * b.d)

\* value * count, count an int
float_times(a, c) == PyFloat(a.n * c, a.d)

\* a / c, c a positive int
float_over(a, c) == PyFloat(a.n, a.d * c)

float_lt(a, b) == a.n * b.d < b.n * a.d

float_le(a, b) == a.n * b.d <= b.n * a.d

(***************************************************************************)
(* _summarize_numeric_hist                                                 *)
(***************************************************************************)
\* mutant: the test `count <= 0` is missing
keep_entry_mut(k, v) == py_float(PyStr(k)).ok /\ py_int(v).ok

\* an entry is kept when key and count convert and the count is positive
keep_entry(k, v) ==
    /\ py_float(PyStr(k)).ok
    /\ py_int(v).ok
    /\ ~(py_int(v).val <= 0)

\* the loop over dist.items(): the (value, count) pairs kept, in input order
RECURSIVE numeric_items(_, _)
numeric_items(entries, i) ==
    IF i > Len(entries) THEN <<>>
    ELSE LET k == entries[i][1]
             v == entries[i][2]
         IN  (IF keep_entry(k, v)
              THEN <<[value |-> py_float(PyStr(k)).val, count |-> py_int(v).val]>>
              ELSE <<>>)
             \o numeric_items(entries, i + 1)

\* insertion of x into a sequence sorted by value, after its equals (stable)
RECURSIVE insert_sorted(_, _)
insert_sorted(sorted, x) ==
    IF sorted = <<>> THEN <<x>>
    ELSE IF float_lt(x.value, Head(sorted).value)
    THEN <<x>> \o sorted
    ELSE <<Head(sorted)>> \o insert_sorted(Tail(sorted), x)

\* mutant: the items are left in input order
sort_items_mut(items, n) == items

\* items.sort(key=lambda x: x[0])
RECURSIVE sort_items(_, _)
sort_items(items, n) ==
    IF n = 0 THEN <<>>
    ELSE insert_sorted(sort_items(items, n - 1), items[n])

\* sum(c for _, c in items)
RECURSIVE total_count(_, _)
total_count(items, i) ==
    IF i > Len(items) THEN 0 ELSE items[i].count + total_count(items, i + 1)

\* mutant: the values are summed without their counts
RECURSIVE total_weighted_mut(_, _)
total_weighted_mut(items, i) ==
    IF i > Len(items) THEN PyFloat(0, 1)
    ELSE float_add(items[i].value, total_weighted_mut(items, i + 1))

\* sum(value * count for value, count in items)
RECURSIVE total_weighted(_, _)
total_weighted(items, i) ==
    IF i > Len(items) THEN PyFloat(0, 1)
    ELSE float_add(float_times(items[i].value, items[i].count),
                   total_weighted(items, i + 1))

\* mutant: the supplied average is tested for truth, so 0 counts as absent
numeric_mean_mut(items, hist_avg, use_avg) ==
    LET total == total_count(items, 1)
    IN  IF use_avg /\ truthy(hist_avg)
        THEN py_float(hist_avg)
        ELSE Converted(IF total > 0
                       THEN float_over(total_weighted(items, 1), total)
                       ELSE None)

\* the mean: the supplied average when requested and present, else the
\* count-weighted mean.  float(hist_avg) may raise.
numeric_mean(items, hist_avg, use_avg) ==
    LET total == total_count(items, 1)
    IN  IF use_avg /\ hist_avg.t # "null"
        THEN py_float(hist_avg)
        ELSE Converted(IF total > 0
                       THEN float_over(total_weighted(items, 1), total)
                       ELSE None)

\* mutant: the running count has to exceed the threshold
RECURSIVE percentile_walk_mut(_, _, _, _, _, _)
percentile_walk_mut(items, total, pn, pd, i, running) ==
    IF i > Len(items) THEN items[Len(items)].value
    ELSE IF (running + items[i].count) * pd > total * pn
    THEN items[i].value
    ELSE percentile_walk_mut(items, total, pn, pd, i + 1, running + items[i].count)

\* percentile(p), p = pn / pd: the first value whose running count reaches
\* total * p, the last value when none does
RECURSIVE percentile_walk(_, _, _, _, _, _)
percentile_walk(items, total, pn, pd, i, running) ==
    IF i > Len(items) THEN items[Len(items)].value
    ELSE IF (running + items[i].count) * pd >= total * pn
    THEN items[i].value
    ELSE percentile_walk(items, total, pn, pd, i + 1, running + items[i].count)

percentile(items, pn, pd) ==
    LET total == total_count(items, 1)
    IN  IF total <= 0 THEN None
        ELSE percentile_walk(items, total, pn, pd, 1, 0)

\* the seven columns of a numeric summary
numeric_columns(prefix, mean, p50, p90, p99, was_cut, unique_count) ==
    (prefix \o "_mean") :> mean
        @@ (prefix \o "_avg") :> mean
        @@ (prefix \o "_p50") :> p50
        @@ (prefix \o "_p90") :> p90
        @@ (prefix \o "_p99") :> p99
        @@ (prefix \o "_was_cut") :> was_cut
        @@ (prefix \o "_unique_values_count") :> unique_count

summarize_numeric_hist(h, prefix, use_avg) ==
    LET dist         == or_empty_dict(dict_get(h, "distribution"))
        hist_avg     == dict_get(h, "average")
        was_cut      == dict_get_default(h, "was_cut", PyBool(FALSE))
        unique_count == dict_get(h, "unique_values_count")
        unsorted     == numeric_items(dist.v, 1)
        items        == sort_items(unsorted, Len(unsorted))
        mean         == numeric_mean(items, hist_avg, use_avg)
    IN  IF ~isinstance_dict(dist) THEN Raised   \* dist.items(): AttributeError
        ELSE IF unsorted = <<>>
        THEN Returned(numeric_columns(prefix, None, None, None, None,
                                      was_cut, unique_count))
        ELSE IF ~mean.ok THEN Raised   \* float(hist_avg): ValueError / TypeError
        ELSE Returned(numeric_columns(prefix, mean.val,
                                      percentile(items, 1, 2),
                                      percentile(items, 9, 10),
                                      percentile(items, 99, 100),
                                      was_cut, unique_count))

(***************************************************************************)
(* _summarize_boolean_hist                                                 *)
(***************************************************************************)
\* int(dist.get(key, 0)), 0 when the conversion fails
boolean_count(dist, key) ==
    LET c == py_int(dict_get_default(dist, key, PyInt(0)))
    IN  IF c.ok THEN c.val ELSE 0

\* mutant: the total is tested against 0 only, so a negative total divides
fraction_true_mut(true_count, false_count) ==
    IF true_count + false_count # 0
    THEN PyFloat(true_count, true_count + false_count)
    ELSE None

\* true_count / total if total > 0 else None
fraction_true(true_count, false_count) ==
    IF true_count + false_count > 0
    THEN PyFloat(true_count, true_count + false_count)
    ELSE None

\* mutant: the true_fraction column is given the (overridable) average
boolean_columns_mut(prefix, true_count, false_count, frac_true, avg, was_cut, unique_count) ==
    (prefix \o "_true_count") :> PyInt(true_count)
        @@ (prefix \o "_false_count") :> PyInt(false_count)
        @@ (prefix \o "_true_fraction") :> avg
        @@ (prefix \o "_average") :> avg
        @@ (prefix \o "_was_cut") :> was_cut
        @@ (prefix \o "_unique_values_count") :> unique_count

\* the six columns of a boolean summary
boolean_columns(prefix, true_count, false_count, frac_true, avg, was_cut, unique_count) ==
    (prefix \o "_true_count") :> PyInt(true_count)
        @@ (prefix \o "_false_count") :> PyInt(false_count)
        @@ (prefix \o "_true_fraction") :> frac_true
        @@ (prefix \o "_average") :> avg
        @@ (prefix \o "_was_cut") :> was_cut
        @@ (prefix \o "_unique_values_count") :> unique_count

summarize_boolean_hist(h, true_key, false_key, prefix) ==
    LET dist         == or_empty_dict(dict_get(h, "distribution"))
        hist_avg     == dict_get(h, "average")
        was_cut      == dict_get_default(h, "was_cut", PyBool(FALSE))
        unique_count == dict_get(h, "unique_values_count")
        true_count   == boolean_count(dist, true_key)
        false_count  == boolean_count(dist, false_key)
        frac_true    == fraction_true(true_count, false_count)
        avg          == IF hist_avg.t # "null" THEN hist_avg ELSE frac_true
        avg_float    == IF avg.t # "null" THEN py_float(avg) ELSE Converted(None)
    IN  IF ~isinstance_dict(dist) THEN Raised   \* dist.get: AttributeError
        ELSE IF ~avg_float.ok THEN Raised   \* float(avg): ValueError / TypeError
        ELSE Returned(boolean_columns(prefix, true_count, false_count, frac_true,
                                      avg_float.val, was_cut, unique_count))

(***************************************************************************)
(* _summarize_original_color_hist                                          *)
(***************************************************************************)
\* the top_n every caller passes
TopN == 5

\* the loop over dist.items(): the (color, count) pairs whose count converts
\* and is positive, in input order
RECURSIVE color_counts(_, _)
color_counts(entries, i) ==
    IF i > Len(entries) THEN <<>>
    ELSE LET c == py_int(entries[i][2])
         IN  (IF c.ok /\ c.val > 0
              THEN <<[color |-> entries[i][1], count |-> c.val]>>
              ELSE <<>>)
             \o color_counts(entries, i + 1)

\* mutant: an entry is placed before the entries of equal count
RECURSIVE insert_by_count_mut(_, _)
insert_by_count_mut(sorted, x) ==
    IF sorted = <<>> THEN <<x>>
    ELSE IF x.count >= Head(sorted).count
    THEN <<x>> \o sorted
    ELSE <<Head(sorted)>> \o insert_by_count_mut(Tail(sorted), x)

\* insertion of x into a sequence sorted by count descending, after the
\* entries of equal count (the sort is stable, also with reverse=True)
RECURSIVE insert_by_count(_, _)
insert_by_count(sorted, x) ==
    IF sorted = <<>> THEN <<x>>
    ELSE IF x.count > Head(sorted).count
    THEN <<x>> \o sorted
    ELSE <<Head(sorted)>> \o insert_by_count(Tail(sorted), x)

\* color_counts.sort(key=lambda x: x[1], reverse=True)
RECURSIVE sort_by_count(_, _)
sort_by_count(items, n) ==
    IF n = 0 THEN <<>>
    ELSE insert_by_count(sort_by_count(items, n - 1), items[n])

\* color_counts[:top_n]
top_colors(sorted, top_n) ==
    SubSeq(sorted, 1, IF Len(sorted) < top_n THEN Len(sorted) ELSE top_n)

top_column(i) == "original_color_top" \o NatText(i)

top_count_column(i) == top_column(i) \o "_count"

\* the columns of a color summary: the two pass-through columns, a pair per
\* rank (null beyond the ranked colors) and the dominant pair
color_columns(top, top_n, was_cut, unique_count) ==
    [original_color_was_cut             |-> was_cut,
     original_color_unique_values_count |-> unique_count,
     original_color_dominant       |->
         IF Len(top) > 0 THEN PyStr(top[1].color) ELSE None,
     original_color_dominant_count |->
         IF Len(top) > 0 THEN PyInt(top[1].count) ELSE None]
    @@ [c \in {top_column(i) : i \in 1 .. top_n} |->
           LET i == CHOOSE j \in 1 .. top_n : top_column(j) = c
           IN  IF i <= Len(top) THEN PyStr(top[i].color) ELSE None]
    @@ [c \in {top_count_column(i) : i \in 1 .. top_n} |->
           LET i == CHOOSE j \in 1 .. top_n : top_count_column(j) = c
           IN  IF i <= Len(top) THEN PyInt(top[i].count) ELSE None]

summarize_original_color_hist(h, top_n) ==
    LET dist         == or_empty_dict(dict_get(h, "distribution"))
        was_cut      == dict_get_default(h, "was_cut", PyBool(FALSE))
        unique_count == dict_get(h, "unique_values_count")
        unsorted     == color_counts(dist.v, 1)
        sorted       == sort_by_count(unsorted, Len(unsorted))
    IN  IF ~isinstance_dict(dist) THEN Raised   \* dist.items(): AttributeError
        ELSE Returned(color_columns(top_colors(sorted, top_n), top_n,
                                    was_cut, unique_count))

(***************************************************************************)
(* snapshot_to_row, of ingest_bi.py and of stats_shots_to_parquet.py        *)
(***************************************************************************)
NumericMetrics == <<"creature_size", "health", "food", "age">>

BooleanMetrics == <<"can_kill", "can_move">>

\* the identity and metadata columns
snapshot_identity_columns(snap, meta) ==
    [colony_id       |-> dict_get(snap, "colony_instance_id"),
     tick            |-> dict_get(snap, "tick"),
     creatures_count |-> dict_get(snap, "creatures_count"),
     created_at_utc  |-> dict_get(meta, "created_at_utc"),
     colony_width    |-> dict_get(meta, "colony_width"),
     colony_height   |-> dict_get(meta, "colony_height")]

\* hists.get(name) or {}
metric_hist(hists, name) == or_empty_dict(dict_get(hists, name))

\* a summarizer called on h: h.get raises AttributeError when h is no dict
summary_of(h, summary) == IF isinstance_dict(h) THEN summary ELSE Raised

\* the row.update(...) calls: the summaries of the four numeric and the two
\* boolean metrics and, in ingest_bi.py only, of original_color
snapshot_summaries(hists, scr) ==
    [i \in 1 .. 4 |->
        LET h == metric_hist(hists, NumericMetrics[i])
        IN  summary_of(h, summarize_numeric_hist(h, NumericMetrics[i], TRUE))]
    \o [i \in 1 .. 2 |->
        LET h == metric_hist(hists, BooleanMetrics[i])
        IN  summary_of(h, summarize_boolean_hist(h, "1", "0", BooleanMetrics[i]))]
    \o (IF scr = "ingest_bi"
        THEN LET h == metric_hist(hists, "original_color")
             IN  <<summary_of(h, summarize_original_color_hist(h, TopN))>>
        ELSE <<>>)

\* row.update applied for each summary in turn
RECURSIVE row_update(_, _, _)
row_update(cols, summaries, i) ==
    IF i > Len(summaries) THEN cols
    ELSE row_update(summaries[i].cols @@ cols, summaries, i + 1)

snapshot_to_row(snap, scr) ==
    LET meta  == or_empty_dict(dict_get(snap, "meta"))
        hists == or_empty_dict(dict_get(snap, "histograms"))
    IN  IF ~isinstance_dict(meta) THEN Raised        \* meta.get: AttributeError
        ELSE IF ~isinstance_dict(hists) THEN Raised  \* hists.get: AttributeError
        ELSE LET summaries == snapshot_summaries(hists, scr)
             IN  IF \E i \in DOMAIN summaries : summaries[i].raised
                 THEN Raised
                 ELSE Returned(row_update(snapshot_identity_columns(snap, meta),
                                          summaries, 1))

(***************************************************************************)
(* Histogram objects handed to the summarizers                             *)
(***************************************************************************)
\* largest count of an entry
MaxCount == 5

\* a histogram object; Absent fields are left out
hist_of(dist, avg, was_cut, unique_count) ==
    dict_of(<< <<"distribution", dist>>, <<"average", avg>>,
               <<"was_cut", was_cut>>, <<"unique_values_count", unique_count>> >>)

\* the count written under a key: an integer from -1 up, or no entry
CountChoices == {PyInt(c) : c \in (0 - 1) .. MaxCount} \cup {Absent}

\* the orders in which the keys of a distribution are written
KeyOrders == {"ascending", "descending", "rotated"}

\* the distribution with count cs[k] under key k, for the keys 1 .. MaxValue
\* written in the given order
well_formed_dist(cs, order) ==
    dict_of([i \in 1 .. MaxValue |->
                LET k == CASE order = "ascending"  -> i
                           [] order = "descending" -> MaxValue + 1 - i
                           [] order = "rotated"    -> (i % MaxValue) + 1
                IN  <<IntText(k), cs[k]>>])

\* <<average, use_hist_average>> pairs tried on every well-formed distribution
AverageUses ==
    {<<Absent, TRUE>>, <<PyFloat(3, 4), TRUE>>, <<PyFloat(3, 4), FALSE>>,
     <<PyInt(0), TRUE>>}

\* distributions with unparsable, duplicate, fractional or missing parts
IrregularDists ==
    {Absent, None, EmptyDict, PyInt(5), PyList(<<>>),
     PyDict(<< <<"x", PyInt(3)>> >>),
     PyDict(<< <<"1", PyStr("x")>> >>),
     PyDict(<< <<"1", None>> >>),
     PyDict(<< <<"1", PyStr("2")>> >>),
     PyDict(<< <<"1", PyFloat(5, 2)>> >>),
     PyDict(<< <<"1", PyBool(TRUE)>> >>),
     PyDict(<< <<"1", PyInt(1)>>, <<"1.0", PyInt(2)>> >>),
     PyDict(<< <<"2.5", PyInt(1)>>, <<"1", PyInt(1)>> >>),
     PyDict(<< <<"1", PyInt(0)>>, <<"2", PyInt(0 - 1)>> >>),
     PyDict(<< <<"3", PyInt(1)>>, <<"x", PyInt(5)>>, <<"1", PyInt(3)>> >>),
     PyDict(<< <<"1", PyInt(1)>>, <<"3", PyInt(3)>> >>)}

AverageValues ==
    {Absent, None, PyInt(0), PyInt(2), PyFloat(3, 4), PyStr("2.5"), PyStr("x")}

\* <<was_cut, unique_values_count>> pairs
CutAndUnique ==
    {<<Absent, Absent>>, <<PyBool(TRUE), PyInt(4)>>, <<None, None>>,
     <<PyBool(FALSE), Absent>>}

\* the counts of a boolean distribution under "1" and "0"
BooleanCounts ==
    {PyInt(c) : c \in (0 - 1) .. MaxCount}
        \cup {Absent, None, PyStr("2"), PyStr("x")}

\* a distribution that is no mapping of counts
BooleanOddDists == {Absent, None, PyInt(5)}

BooleanAverages ==
    {Absent, None, PyInt(0), PyInt(1), PyFloat(3, 4), PyStr("x")}

(***************************************************************************)
(* Specification of one _summarize_numeric_hist call                       *)
(***************************************************************************)
\* the prefix the numeric summarizer is called with
NumericPrefix == "health"

InitNumeric ==
    /\ \/ \E cs \in [1 .. MaxValue -> CountChoices], order \in KeyOrders,
             au \in AverageUses :
             /\ hist = hist_of(well_formed_dist(cs, order), au[1],
                               Absent, Absent)
             /\ use_hist_average = au[2]
       \/ \E d \in IrregularDists, a \in AverageValues, cu \in CutAndUnique :
             /\ hist = hist_of(d, a, cu[1], cu[2])
             /\ use_hist_average \in BOOLEAN
    /\ event = None
    /\ snapshot = None
    /\ row = <<>>
    /\ outcome = "pending"
    /\ script = "ingest_bi"
    /\ DriverIdle
    /\ NoObjects

SummarizeNumeric ==
    /\ outcome = "pending"
    /\ isinstance_dict(hist)
    /\ LET r == summarize_numeric_hist(hist, NumericPrefix, use_hist_average)
       IN  /\ row' = r.cols
           /\ outcome' = IF r.raised THEN "raised" ELSE "returned"
    /\ UNCHANGED <<event, hist, use_hist_average, snapshot, script, driver_vars, repeat_vars, read_vars>>

NextNumeric == SummarizeNumeric

SpecNumeric == InitNumeric /\ [][NextNumeric]_vars

(***************************************************************************)
(* Specification of one _summarize_boolean_hist call                       *)
(***************************************************************************)
\* the prefix the boolean summarizer is called with
BooleanPrefix == "can_kill"

InitBoolean ==
    /\ \E a \in BooleanAverages,
          cu \in {<<Absent, Absent>>, <<PyBool(TRUE), PyInt(2)>>} :
          \/ \E f \in BooleanCounts, tr \in BooleanCounts,
                x \in {Absent, PyInt(2)}, true_first \in BOOLEAN :
                hist = hist_of(IF true_first
                               THEN dict_of(<< <<"1", tr>>, <<"2", x>>, <<"0", f>> >>)
                               ELSE dict_of(<< <<"0", f>>, <<"2", x>>, <<"1", tr>> >>),
                               a, cu[1], cu[2])
          \/ \E d \in BooleanOddDists : hist = hist_of(d, a, cu[1], cu[2])
    /\ use_hist_average = TRUE
    /\ event = None
    /\ snapshot = None
    /\ row = <<>>
    /\ outcome = "pending"
    /\ script = "ingest_bi"
    /\ DriverIdle
    /\ NoObjects

SummarizeBoolean ==
    /\ outcome = "pending"
    /\ isinstance_dict(hist)
    /\ LET r == summarize_boolean_hist(hist, "1", "0", BooleanPrefix)
       IN  /\ row' = r.cols
           /\ outcome' = IF r.raised THEN "raised" ELSE "returned"
    /\ UNCHANGED <<event, hist, use_hist_average, snapshot, script, driver_vars, repeat_vars, read_vars>>

NextBoolean == SummarizeBoolean

SpecBoolean == InitBoolean /\ [][NextBoolean]_vars

\* number of distinct colors a color distribution is written with
MaxColors == 6

\* the key "<r>_<g>_<b>" of color i: "1_2_3", "4_5_6", "7_8_9", ...
ColorKey(i) ==
    NatText(3 * i - 2) \o "_" \o NatText(3 * i - 1) \o "_" \o NatText(3 * i)

\* the count written under a color: none, or a few counts that tie often
ColorCountChoices == {Absent, PyInt(1), PyInt(2), PyInt(MaxCount)}

\* the distribution with count cs[i] under color i, the colors written in
\* ascending or descending order
color_dist(cs, ascending) ==
    dict_of([i \in 1 .. MaxColors |->
                LET k == IF ascending THEN i ELSE MaxColors + 1 - i
                IN  <<ColorKey(k), cs[k]>>])

\* the spec's example and distributions with unparsable, non-positive or
\* missing parts
IrregularColorDists ==
    {Absent, None, EmptyDict, PyInt(5), PyList(<<PyInt(1)>>), PyStr("red"),
     PyDict(<< <<"1_2_3", PyInt(5)>>, <<"4_5_6", PyInt(9)>>,
               <<"7_8_9", PyInt(1)>> >>),
     PyDict(<< <<"1_2_3", PyInt(0)>>, <<"4_5_6", PyInt(0 - 1)>> >>),
     PyDict(<< <<"1_2_3", PyInt(0 - 2)>>, <<"4_5_6", PyInt(2)>>,
               <<"7_8_9", PyInt(0)>>, <<"10_11_12", PyInt(2)>> >>),
     PyDict(<< <<"1_2_3", PyStr("x")>>, <<"4_5_6", PyStr("2")>>,
               <<"7_8_9", None>>, <<"red", PyFloat(5, 2)>>,
               <<"10_11_12", PyBool(TRUE)>>, <<"", PyInt(3)>> >>)}

(***************************************************************************)
(* Specification of one _summarize_original_color_hist call                *)
(***************************************************************************)
InitColor ==
    /\ \/ \E cs \in [1 .. MaxColors -> ColorCountChoices], ascending \in BOOLEAN :
             hist = hist_of(color_dist(cs, ascending), Absent, Absent, Absent)
       \/ \E dd \in IrregularColorDists, cu \in CutAndUnique :
             hist = hist_of(dd, Absent, cu[1], cu[2])
    /\ use_hist_average = TRUE
    /\ event = None
    /\ snapshot = None
    /\ row = <<>>
    /\ outcome = "pending"
    /\ script = "ingest_bi"
    /\ DriverIdle
    /\ NoObjects

SummarizeColor ==
    /\ outcome = "pending"
    /\ isinstance_dict(hist)
    /\ LET r == summarize_original_color_hist(hist, TopN)
       IN  /\ row' = r.cols
           /\ outcome' = IF r.raised THEN "raised" ELSE "returned"
    /\ UNCHANGED <<event, hist, use_hist_average, snapshot, script, driver_vars, repeat_vars, read_vars>>

NextColor == SummarizeColor

SpecColor == InitColor /\ [][NextColor]_vars

(***************************************************************************)
(* Stats-shot objects handed to snapshot_to_row                            *)
(***************************************************************************)
GoodNumericHist ==
    hist_of(PyDict(<< <<"1", PyInt(1)>>, <<"3", PyInt(3)>> >>), Absent,
            PyBool(FALSE), PyInt(2))

GoodBooleanHist ==
    hist_of(PyDict(<< <<"0", PyInt(1)>>, <<"1", PyInt(1)>> >>), PyFloat(3, 4),
            PyBool(FALSE), PyInt(2))

GoodColorHist ==
    hist_of(PyDict(<< <<"1_2_3", PyInt(5)>>, <<"4_5_6", PyInt(9)>>,
                      <<"7_8_9", PyInt(1)>> >>), Absent, PyBool(TRUE), PyInt(3))

\* what may stand under a numeric metric of "histograms"
NumericHistValues ==
    {Absent, None, EmptyDict, GoodNumericHist, PyInt(7),
     hist_of(PyDict(<< <<"1", PyInt(1)>> >>), PyStr("x"), Absent, Absent),
     hist_of(PyList(<<PyInt(1)>>), Absent, Absent, Absent),
     hist_of(PyDict(<< <<"x", PyInt(1)>>, <<"2", PyStr("y")>> >>), None,
             Absent, Absent)}

\* what may stand under a boolean metric of "histograms"
BooleanHistValues ==
    {Absent, None, GoodBooleanHist, PyStr("x"),
     hist_of(PyDict(<< <<"1", PyStr("y")>> >>), PyStr("x"), Absent, Absent)}

\* what may stand under "original_color" of "histograms"
ColorHistValues ==
    {Absent, None, GoodColorHist, PyInt(1),
     hist_of(PyStr("red"), Absent, Absent, Absent)}

FullMeta ==
    PyDict(<< <<"created_at_utc", PyStr("2025-12-22T17:07:48Z")>>,
              <<"colony_width", PyInt(500)>>, <<"colony_height", PyInt(400)>> >>)

\* what may stand under "meta"
MetaValues ==
    {Absent, None, FullMeta, PyDict(<< <<"colony_width", PyInt(500)>> >>),
     PyInt(3), PyStr("m")}

\* "histograms" mappings, metric by metric
HistogramsDicts ==
    {dict_of(<< <<"creature_size", a>>, <<"health", b>>, <<"food", c>>,
                <<"age", e>>, <<"can_kill", f>>, <<"can_move", g>>,
                <<"original_color", h>> >>) :
        a \in NumericHistValues,
        b \in {Absent, None, GoodNumericHist},
        c \in {Absent, GoodNumericHist},
        e \in {GoodNumericHist, PyInt(7)},
        f \in BooleanHistValues,
        g \in {Absent, GoodBooleanHist},
        h \in ColorHistValues}

\* "histograms" values that are no mapping of metrics
OddHistograms == {Absent, None, EmptyDict, PyInt(5), PyList(<<PyInt(1)>>)}

\* <<colony_instance_id, tick, creatures_count>>
SnapshotIdentities ==
    {<<PyStr("c1"), PyInt(7), PyInt(10)>>, <<Absent, Absent, Absent>>}

snapshot_of(id, meta, hists) ==
    dict_of(<< <<"colony_instance_id", id[1]>>, <<"tick", id[2]>>,
               <<"creatures_count", id[3]>>, <<"meta", meta>>,
               <<"histograms", hists>> >>)

Scripts == {"ingest_bi", "stats_shots_to_parquet"}

(***************************************************************************)
(* Specification of one snapshot_to_row call                               *)
(***************************************************************************)
InitSnapshot ==
    /\ \E id \in SnapshotIdentities :
          \/ \E hh \in HistogramsDicts :
                snapshot = snapshot_of(id, FullMeta, hh)
          \/ \E m \in MetaValues, hh \in OddHistograms :
                snapshot = snapshot_of(id, m, hh)
    /\ script \in Scripts
    /\ event = None
    /\ hist = None
    /\ use_hist_average = TRUE
    /\ row = <<>>
    /\ outcome = "pending"
    /\ DriverIdle
    /\ NoObjects

SnapshotToRow ==
    /\ outcome = "pending"
    /\ isinstance_dict(snapshot)
    /\ LET r == snapshot_to_row(snapshot, script)
       IN  /\ row' = r.cols
           /\ outcome' = IF r.raised THEN "raised" ELSE "returned"
    /\ UNCHANGED <<event, hist, use_hist_average, snapshot, script, driver_vars, repeat_vars, read_vars>>

NextSnapshot == SnapshotToRow

SpecSnapshot == InitSnapshot /\ [][NextSnapshot]_vars

(***************************************************************************)
(* The ingestion driver: main and process_colony of both scripts           *)
(***************************************************************************)
\* the colonies the bucket may hold objects of
Colonies == {"c1", "c2"}

\* the colony ids in sorted order
ColonyOrder == <<"c1", "c2">>

\* largest number of keys one listing returns
MaxKeys == 2

\* the second path component of an object key
Folders == {"stats_shots", "events", "other"}

\* the folders list_colony_ids looks for
scanned_folders ==
    IF script = "ingest_bi" THEN {"stats_shots", "events"} ELSE {"stats_shots"}

\* mutant: the ids come back in descending order
list_colony_ids_mut(objs) ==
    LET ids == SelectSeq(ColonyOrder,
                   LAMBDA c : \E o \in objs : o[1] = c /\ o[2] \in scanned_folders)
    IN  [i \in 1 .. Len(ids) |-> ids[Len(ids) + 1 - i]]

\* list_colony_ids over the keys <<colony, folder>> of the bucket: parts[0] of
\* every key whose parts[1] is a scanned folder, as a set, sorted
list_colony_ids(objs) ==
    SelectSeq(ColonyOrder,
        LAMBDA c : \E o \in objs : o[1] = c /\ o[2] \in scanned_folders)

\* what the paginator may return for a colony folder: n distinct keys, in
\* ascending or in descending order; key k stands for the k-th smallest key
\* name of the folder
KeyListings ==
    {[i \in 1 .. n |-> IF ascending THEN i ELSE n + 1 - i] :
        n \in 0 .. MaxKeys, ascending \in BOOLEAN}

\* sorted insertion of a key
insert_key(sorted, k) ==
    LET before == SelectSeq(sorted, LAMBDA x : x <= k)
        after  == SelectSeq(sorted, LAMBDA x : x > k)
    IN  before \o <<k>> \o after

\* mutant: the keys are processed in the order the store listed them
sort_keys_mut(ks, n) == ks

\* sorted(keys), of the first n keys
RECURSIVE sort_keys(_, _)
sort_keys(ks, n) ==
    IF n = 0 THEN <<>> ELSE insert_key(sort_keys(ks, n - 1), ks[n])

\* the colony process_colony is working on
colony_id == colony_ids[ci]

\* a stats-shot object whose payload declares the colony id
stats_doc(id) == snapshot_of(<<id, PyInt(7), PyInt(10)>>, FullMeta,
                             PyDict(<< <<"health", GoodNumericHist>> >>))

\* an event object whose payload declares the colony id
event_doc(id, rules) ==
    dict_of(<< <<"colony_instance_id", id>>, <<"tick", PyInt(7)>>,
               <<"event_type", PyStr("Event")>>,
               <<"event_description", PyStr("something happened")>>,
               <<"rules", rules>>,
               <<"event_data", PyDict(<< <<"Extinction", None>> >>)>> >>)

\* the ids a payload may declare: a colony, none (key missing), null, a number
DeclaredIds == {PyStr(c) : c \in Colonies} \cup {Absent, None, PyInt(1)}

\* what json.loads may return for an object of the pipeline: documents that
\* normalize, one with a malformed sub-field, one that is no JSON object
Documents(pl) ==
    IF pl = "stats"
    THEN {stats_doc(id) : id \in DeclaredIds}
            \cup {snapshot_of(<<PyStr("c1"), PyInt(7), PyInt(10)>>, PyInt(3), Absent),
                  PyList(<<>>)}
    ELSE {event_doc(id, FullRules) : id \in DeclaredIds}
            \cup {event_doc(PyStr("c1"), PyInt(5)), PyList(<<>>)}

\* mutant: a row without a colony id is given the colony in progress
normalize_mut(pl, doc) ==
    LET r == IF ~isinstance_dict(doc) THEN Raised
             ELSE IF pl = "stats" THEN snapshot_to_row(doc, script)
             ELSE event_to_row(doc)
    IN  IF ~r.raised /\ r.cols.colony_id = None
        THEN Returned([r.cols EXCEPT !.colony_id = PyStr(colony_id)])
        ELSE r

\* snapshot_to_row(snapshot) / event_to_row(event); .get on a document that
\* is no dict raises AttributeError
normalize(pl, doc) ==
    IF ~isinstance_dict(doc) THEN Raised
    ELSE IF pl = "stats" THEN snapshot_to_row(doc, script)
    ELSE event_to_row(doc)

\* mutant: a row without a colony_id passes the check
colony_id_mismatch_absent_ok(r, expected) ==
    r.colony_id.t # "null" /\ r.colony_id # PyStr(expected)

\* mutant: the check is gone
colony_id_mismatch_unchecked(r, expected) == FALSE

\* row.get("colony_id") != colony_id
colony_id_mismatch(r, expected) == r.colony_id # PyStr(expected)

\* mutant: only a colony-id mismatch makes main fail
main_except_mut(exc) == IF exc = "mismatch" THEN "1" ELSE "0"

\* except Exception as exc: ... return 1
main_except(exc) == "1"

\* an exception leaves process_colony and is caught by main
Abort(exc) ==
    /\ pc' = "done"
    /\ main_result' = main_except(exc)
    /\ error' = exc
    /\ UNCHANGED ci

\* mutant: process_colony returns after its first pipeline
AfterPipeline_mut(pl) ==
    IF ci < Len(colony_ids)
    THEN pc' = "list_stats" /\ ci' = ci + 1 /\ UNCHANGED <<main_result, error>>
    ELSE pc' = "done" /\ main_result' = "0" /\ UNCHANGED <<ci, error>>

\* the pipeline pl of the colony in progress is over: the colony's next
\* pipeline, else the next colony, else "All colonies processed" / return 0
AfterPipeline(pl) ==
    IF script = "ingest_bi" /\ pl = "stats"
    THEN pc' = "list_events" /\ UNCHANGED <<ci, main_result, error>>
    ELSE IF ci < Len(colony_ids)
    THEN pc' = "list_stats" /\ ci' = ci + 1 /\ UNCHANGED <<main_result, error>>
    ELSE pc' = "done" /\ main_result' = "0" /\ UNCHANGED <<ci, error>>

\* the table of a colony and pipeline with its rows
table_of(c, pl, rr) == [colony |-> c, pipeline |-> pl, rows |-> rr]

InitDriver ==
    /\ script \in Scripts
    /\ upload \in BOOLEAN
    /\ colony_ids = <<>>
    /\ pc = "main"
    /\ ci = 0
    /\ keys = <<>>
    /\ rows = <<>>
    /\ listed = <<>>
    /\ fetched = <<>>
    /\ written = {}
    /\ uploaded = {}
    /\ main_result = "running"
    /\ error = "none"
    /\ event = None
    /\ hist = None
    /\ use_hist_average = TRUE
    /\ snapshot = None
    /\ row = <<>>
    /\ outcome = "pending"
    /\ NoObjects

\* main with --colony-id: colony_ids = [args.colony_id]
MainSingleColony ==
    /\ pc = "main"
    /\ \E c \in Colonies : colony_ids' = <<c>>
    /\ ci' = 1
    /\ pc' = "list_stats"
    /\ UNCHANGED <<call_vars, repeat_vars, read_vars, script, upload, keys, rows, listed, fetched, written, uploaded, main_result, error>>

\* main without --colony-id: list_colony_ids, `if not colony_ids: return 0`
MainDiscover ==
    /\ pc = "main"
    /\ \/ Abort("list") /\ UNCHANGED colony_ids
       \/ \E objs \in SUBSET (Colonies \X Folders) :
             /\ colony_ids' = list_colony_ids(objs)
             /\ IF colony_ids' = <<>>
                THEN pc' = "done" /\ main_result' = "0" /\ UNCHANGED <<ci, error>>
                ELSE pc' = "list_stats" /\ ci' = 1 /\ UNCHANGED <<main_result, error>>
    /\ UNCHANGED <<call_vars, repeat_vars, read_vars, script, upload, keys, rows, listed, fetched, written, uploaded>>

\* process_colony: (ingest_bi.py: os.makedirs(colony_dir) first,)
\* list_stats_objects_for_colony / list_event_objects_for_colony and the
\* test of the listing for emptiness
ListKeys(pl) ==
    /\ pc = "list_" \o pl
    /\ \/ /\ script = "ingest_bi" /\ pl = "stats"
          /\ Abort("mkdir")
          /\ UNCHANGED <<keys, rows, listed>>
       \/ Abort("list") /\ UNCHANGED <<keys, rows, listed>>
       \/ \E ks \in KeyListings :
             /\ keys' = sort_keys(ks, Len(ks))
             /\ listed' = Append(listed, [colony |-> colony_id, pipeline |-> pl,
                                          count |-> Len(ks), stored |-> ks,
                                          keys |-> keys'])
             /\ rows' = <<>>
             /\ IF keys' = <<>> THEN AfterPipeline(pl)
                ELSE pc' = "read_" \o pl /\ UNCHANGED <<ci, main_result, error>>
    /\ UNCHANGED <<call_vars, repeat_vars, read_vars, script, upload, colony_ids, fetched, written, uploaded>>

\* one turn of `for key in keys`: read_s3_json, the normalizer, the colony
\* id check, rows.append; after the last key the test of rows
ReadObject(pl) ==
    /\ pc = "read_" \o pl
    /\ keys # <<>>
    /\ \/ \E exc \in {"fetch", "json"} :
             /\ fetched' = Append(fetched,
                    [colony |-> colony_id, pipeline |-> pl, got |-> exc,
                     declared |-> None, normalized |-> FALSE,
                     key |-> Head(keys), doc |-> None, row |-> <<>>])
             /\ Abort(exc)
             /\ UNCHANGED <<keys, rows>>
       \/ \E doc \in Documents(pl) :
             LET r == normalize(pl, doc)
             IN  /\ fetched' = Append(fetched,
                        [colony |-> colony_id, pipeline |-> pl, got |-> "parsed",
                         declared |-> IF isinstance_dict(doc)
                                      THEN dict_get(doc, "colony_instance_id")
                                      ELSE None,
                         normalized |-> ~r.raised,
                         key |-> Head(keys), doc |-> doc, row |-> r.cols])
                 /\ IF r.raised
                    THEN Abort("normalize") /\ UNCHANGED <<keys, rows>>
                    ELSE IF colony_id_mismatch(r.cols, colony_id)
                    THEN Abort("mismatch") /\ UNCHANGED <<keys, rows>>
                    ELSE /\ rows' = Append(rows, r.cols)
                         /\ keys' = Tail(keys)
                         /\ IF keys' # <<>>
                            THEN UNCHANGED <<pc, ci, main_result, error>>
                            ELSE IF rows' # <<>>
                            THEN pc' = "write_" \o pl
                                 /\ UNCHANGED <<ci, main_result, error>>
                            ELSE IF script = "ingest_bi"
                            THEN AfterPipeline(pl)   \* "No rows produced"
                            ELSE Abort("no_rows")    \* raise RuntimeError
    /\ UNCHANGED <<call_vars, repeat_vars, read_vars, script, upload, colony_ids, listed, written, uploaded>>

\* mutant: the table is uploaded whether or not --upload was given
WriteTable_mut(pl) ==
    /\ pc = "write_" \o pl
    /\ \/ /\ script = "stats_shots_to_parquet"
          /\ Abort("mkdir")
          /\ UNCHANGED written
       \/ Abort("write") /\ UNCHANGED written
       \/ /\ written' = written \cup {table_of(colony_id, pl, rows)}
          /\ pc' = "upload_" \o pl /\ UNCHANGED <<ci, main_result, error>>
    /\ UNCHANGED <<call_vars, repeat_vars, read_vars, script, upload, colony_ids, keys, rows, listed, fetched, uploaded>>

\* (stats_shots_to_parquet.py: os.makedirs first,) pd.DataFrame(rows),
\* df.to_parquet(local_path) and the test of upload
WriteTable(pl) ==
    /\ pc = "write_" \o pl
    /\ \/ /\ script = "stats_shots_to_parquet"
          /\ Abort("mkdir")
          /\ UNCHANGED written
       \/ Abort("write") /\ UNCHANGED written
       \/ /\ written' = written \cup {table_of(colony_id, pl, rows)}
          /\ IF upload
             THEN pc' = "upload_" \o pl /\ UNCHANGED <<ci, main_result, error>>
             ELSE AfterPipeline(pl)
    /\ UNCHANGED <<call_vars, repeat_vars, read_vars, script, upload, colony_ids, keys, rows, listed, fetched, uploaded>>

\* client.upload_file(local_path, BUCKET_NAME, s3_key)
UploadTable(pl) ==
    /\ pc = "upload_" \o pl
    /\ \/ Abort("upload") /\ UNCHANGED uploaded
       \/ /\ uploaded' = uploaded \cup {table_of(colony_id, pl, rows)}
          /\ AfterPipeline(pl)
    /\ UNCHANGED <<call_vars, repeat_vars, read_vars, script, upload, colony_ids, keys, rows, listed, fetched, written>>

NextDriver ==
    \/ MainSingleColony
    \/ MainDiscover
    \/ \E pl \in {"stats", "events"} :
          \/ ListKeys(pl)
          \/ ReadObject(pl)
          \/ WriteTable(pl)
          \/ UploadTable(pl)

SpecDriver == InitDriver /\ [][NextDriver]_vars

\* every call main makes (a listing, get_object, a write, an upload) returns
\* or raises, so main always takes its next step
SpecDriverRuns == SpecDriver /\ WF_vars(NextDriver)

(***************************************************************************)
(* A caller that normalizes the objects it holds, several times over       *)
(***************************************************************************)
\* largest number of normalizer calls one caller makes
MaxCalls == 3

\* the parsed objects a caller may hold, each with the normalizer it is for
HeldObjects ==
    {[fn  |-> "event_to_row",
      arg |-> dict_of(<< <<"colony_instance_id", PyStr("c1")>>,
                         <<"tick", PyInt(7)>>, <<"rules", FullRules>>,
                         <<"event_data", d>> >>)] :
        d \in UnknownValues
                \cup {Absent, PyInt(5),
                      PyDict(<< <<"CreateCreature", FullCreateData>> >>),
                      PyDict(<< <<"ChangeColonyRules", FullChangeData>> >>),
                      PyDict(<< <<"CreateCreature",
                                  PyList(<<PyDict(<< <<"Ellipse", None>> >>)>>)>> >>)}}
        \cup
    {[fn  |-> "snapshot_to_row",
      arg |-> snapshot_of(<<PyStr("c1"), PyInt(7), PyInt(10)>>, FullMeta, hh)] :
        hh \in OddHistograms
                \cup {PyDict(<< <<"health", GoodNumericHist>>,
                                <<"can_kill", GoodBooleanHist>>,
                                <<"original_color", GoodColorHist>> >>)}}

\* mutant: the normalizer pops the last entry off its argument
argument_after_mut(fn, arg) == PyDict(SubSeq(arg.v, 1, Len(arg.v) - 1))

\* the caller's object once the normalizer has returned or raised: both
\* normalizers read their argument, and what it holds, with .get, `in` and
\* indexing only; every store is into the new dict `row`
argument_after(fn, arg) == arg

\* the caller holds two parsed objects
InitRepeat ==
    /\ objects \in [1 .. 2 -> HeldObjects]
    /\ calls = <<>>
    /\ script \in Scripts
    /\ event = None
    /\ hist = None
    /\ use_hist_average = TRUE
    /\ snapshot = None
    /\ row = <<>>
    /\ outcome = "pending"
    /\ body = <<>>
    /\ decoded_by = "none"
    /\ document = None
    /\ exception = "none"
    /\ DriverIdle

\* one more call of the normalizer on one of the objects held
NormalizeHeld ==
    /\ Len(calls) < MaxCalls
    /\ \E k \in DOMAIN objects :
          LET o == objects[k]
              r == IF o.fn = "event_to_row" THEN event_to_row(o.arg)
                   ELSE snapshot_to_row(o.arg, script)
          IN  /\ objects' = [objects EXCEPT ![k].arg = argument_after(o.fn, o.arg)]
              /\ calls' = Append(calls, [object |-> k, given |-> o.arg, result |-> r])
              /\ row' = r.cols
              /\ outcome' = IF r.raised THEN "raised" ELSE "returned"
    /\ UNCHANGED <<event, hist, use_hist_average, snapshot, script, driver_vars, read_vars>>

NextRepeat == NormalizeHeld

SpecRepeat == InitRepeat /\ [][NextRepeat]_vars

(***************************************************************************)
(* read_s3_json                                                            *)
(*                                                                         *)
(* An object body is a record: [t |-> "text", v |-> s] is the UTF-8        *)
(* encoding of the text s, [t |-> "bytes"] is a byte string that is        *)
(* neither UTF-8 nor starts with the gzip magic number, and                *)
(* [t |-> "gzip", of |-> b, defect |-> d] is a gzip member made from the   *)
(* body b and then damaged as d says.                                      *)
(***************************************************************************)
\* what became of a gzip member after it was written
GzipDefects == {"none", "truncated", "corrupt", "crc", "trailing"}

\* the parsed values an object may hold
JsonDocuments ==
    {d \in Documents("stats") \cup Documents("events") : isinstance_dict(d)}
        \cup {None, PyInt(1), PyStr("x"), PyList(<<PyInt(1), PyBool(TRUE)>>)}

\* the texts an object may hold: JSON texts and texts that are no JSON
Texts == {json_dumps(d).v : d \in JsonDocuments} \cup {"", "{\"a\": ", "tick=7"}

PlainBodies == {[t |-> "text", v |-> s] : s \in Texts} \cup {[t |-> "bytes"]}

Bodies ==
    PlainBodies
        \cup {[t |-> "gzip", of |-> b, defect |-> d] :
                 b \in PlainBodies, d \in GzipDefects}

\* gzip.GzipFile(fileobj=io.BytesIO(body)).read(): the decompressed bytes,
\* or the exception.  An empty body reads as empty data; a body without
\* the magic number, a bad checksum and bytes after the member raise
\* gzip.BadGzipFile; a stream that ends early raises EOFError; damaged
\* deflate data raises zlib.error
gunzip(b) ==
    IF b.t = "gzip"
    THEN CASE b.defect = "none"      -> [exc |-> "none", data |-> b.of]
           [] b.defect = "truncated" -> [exc |-> "EOFError", data |-> b]
           [] b.defect = "corrupt"   -> [exc |-> "zlib.error", data |-> b]
           [] OTHER                  -> [exc |-> "BadGzipFile", data |-> b]
    ELSE IF b.t = "text" /\ b.v = ""
    THEN [exc |-> "none", data |-> b]
    ELSE [exc |-> "BadGzipFile", data |-> b]

\* `except OSError`: of the exceptions of gunzip only gzip.BadGzipFile is a
\* subclass of OSError
is_OSError(exc) == exc = "BadGzipFile"

\* bytes.decode("utf-8"): a gzip member starts with 1f 8b, which is no UTF-8
decode_utf8(b) ==
    IF b.t = "text" THEN [exc |-> "none", text |-> b.v]
    ELSE [exc |-> "UnicodeDecodeError", text |-> ""]

\* json.loads(text): the value whose JSON text it is
json_loads(s) ==
    IF \E d \in JsonDocuments : json_dumps(d).v = s
    THEN [exc |-> "none", value |-> CHOOSE d \in JsonDocuments : json_dumps(d).v = s]
    ELSE [exc |-> "JSONDecodeError", value |-> None]

\* the end of read_s3_json: json.loads, JSONDecodeError raised as ValueError
parse_text(by, decoded) ==
    IF decoded.exc # "none"
    THEN [decoded_by |-> by, exception |-> decoded.exc, document |-> None]
    ELSE LET parsed == json_loads(decoded.text)
         IN  IF parsed.exc = "JSONDecodeError"
             THEN [decoded_by |-> by, exception |-> "ValueError", document |-> None]
             ELSE [decoded_by |-> by, exception |-> "none", document |-> parsed.value]

\* read_s3_json once get_object has returned the body
read_s3_json(b) ==
    LET unzipped == gunzip(b)
    IN  IF unzipped.exc = "none"
        THEN parse_text("gzip", decode_utf8(unzipped.data))
        ELSE IF is_OSError(unzipped.exc)
        THEN parse_text("plain", decode_utf8(b))
        ELSE [decoded_by |-> "none", exception |-> unzipped.exc, document |-> None]

InitRead ==
    /\ body \in Bodies
    /\ decoded_by = "none"
    /\ document = None
    /\ exception = "none"
    /\ objects = <<>>
    /\ calls = <<>>
    /\ event = None
    /\ hist = None
    /\ use_hist_average = TRUE
    /\ snapshot = None
    /\ row = <<>>
    /\ outcome = "pending"
    /\ script \in Scripts
    /\ DriverIdle

\* one read_s3_json call: get_object raises, or returns the body
ReadS3Json ==
    /\ outcome = "pending"
    /\ \/ /\ exception' = "ClientError"
          /\ outcome' = "raised"
          /\ UNCHANGED <<decoded_by, document>>
       \/ LET r == read_s3_json(body)
          IN  /\ decoded_by' = r.decoded_by
              /\ exception' = r.exception
              /\ document' = r.document
              /\ outcome' = IF r.exception = "none" THEN "returned" ELSE "raised"
    /\ UNCHANGED <<event, hist, use_hist_average, snapshot, row, script, driver_vars, repeat_vars, body>>

NextRead == ReadS3Json

SpecRead == InitRead /\ [][NextRead]_vars

(***************************************************************************)
(* Properties of event_to_row                                              *)
(***************************************************************************)
RegionColumns ==
    {"event_data_region_type", "event_data_region_x", "event_data_region_y",
     "event_data_region_radius_x", "event_data_region_radius_y"}

ColorColumns == {"event_data_color_r", "event_data_color_g", "event_data_color_b"}

TraitsColumns ==
    {"event_data_traits_size", "event_data_traits_can_kill",
     "event_data_traits_can_move"}

StartingHealthColumn == {"event_data_starting_health"}

NewRulesColumns ==
    {"event_data_new_rules_health_cost_per_size_unit",
     "event_data_new_rules_eat_capacity_per_size_unit",
     "event_data_new_rules_health_cost_if_can_kill",
     "event_data_new_rules_health_cost_if_can_move",
     "event_data_new_rules_mutation_chance",
     "event_data_new_rules_random_death_chance"}

RulesColumns ==
    {"rules_health_cost_per_size_unit", "rules_eat_capacity_per_size_unit",
     "rules_health_cost_if_can_kill", "rules_health_cost_if_can_move",
     "rules_mutation_chance", "rules_random_death_chance"}

EventDataColumns ==
    {"event_data_type", "event_data_value"} \cup RegionColumns \cup ColorColumns
        \cup TraitsColumns \cup StartingHealthColumn \cup NewRulesColumns

EventColumns ==
    {"colony_id", "tick", "event_type", "event_description"} \cup RulesColumns
        \cup EventDataColumns

KnownVariants ==
    {"CreateCreature", "ChangeExtraFoodPerTick", "Extinction", "NewTopography",
     "ChangeColonyRules"}

\* the payload of the event under normalization (None when absent)
Payload == dict_get(event, "event_data")

\* the returned row has column c and it holds null
IsNull(c) == c \in DOMAIN row /\ row[c] = None

\* the returned row has column c and it holds the text s
IsText(c, s) == c \in DOMAIN row /\ row[c] = PyStr(s)

\* a row was returned for a payload that dispatched to the variant
Dispatched(name) ==
    /\ outcome = "returned"
    /\ \/ IsText("event_data_type", name)
       \/ /\ isinstance_dict(Payload)
          /\ \A k \in KnownVariants : dict_has(Payload, k) <=> k = name

\* C1: every returned event row carries exactly the fixed column set
\* (identity, rules, type, value, region, color, traits, starting health and
\* the six new-rules columns), whatever the payload.
C1_FixedColumnSet == outcome = "returned" => DOMAIN row = EventColumns

\* C2 as stated: the type is the known variant key present, null for an
\* absent payload, and for every other payload (any mapping without a known
\* key, any non-mapping value) "Unknown" with the payload serialized to text.
C2_UnknownForEveryOtherPayload ==
    outcome = "returned" =>
        IF Payload.t = "null" THEN IsNull("event_data_type")
        ELSE IF isinstance_dict(Payload)
                /\ \E k \in KnownVariants : dict_has(Payload, k)
        THEN \E k \in KnownVariants :
                dict_has(Payload, k) /\ IsText("event_data_type", k)
        ELSE /\ IsText("event_data_type", "Unknown")
             /\ "event_data_value" \in DOMAIN row
             /\ row.event_data_value \in {json_dumps(Payload), py_str(Payload)}

\* C2 amended: the type is a known variant key present in a mapping payload;
\* null for an absent payload and for a non-mapping payload, whose value is
\* the payload's str() text; "Unknown" for a mapping without a known key,
\* whose value is the payload's JSON text when the mapping is non-empty and
\* null when it is empty.
C2_DispatchOfPayload ==
    outcome = "returned" =>
        IF Payload.t = "null" THEN IsNull("event_data_type")
        ELSE IF isinstance_dict(Payload)
        THEN IF \E k \in KnownVariants : dict_has(Payload, k)
             THEN \E k \in KnownVariants :
                     dict_has(Payload, k) /\ IsText("event_data_type", k)
             ELSE /\ IsText("event_data_type", "Unknown")
                  /\ "event_data_value" \in DOMAIN row
                  /\ row.event_data_value =
                        (IF Len(Payload.v) = 0 THEN None ELSE json_dumps(Payload))
                  /\ Payload = PyDict(<< <<"Foo", PyInt(1)>> >>)
                        => IsText("event_data_value", "{\"Foo\": 1}")
        ELSE /\ IsNull("event_data_type")
             /\ "event_data_value" \in DOMAIN row
             /\ row.event_data_value = py_str(Payload)
             /\ Payload = PyList(<<PyInt(1), PyStr("a")>>)
                   => IsText("event_data_value", "[1, 'a']")

\* C2 witness: a non-empty mapping without a known key came back "Unknown"
\* with its JSON text.
C2_Witness ==
    /\ outcome = "returned"
    /\ Payload = PyDict(<< <<"Foo", PyInt(1)>> >>)
    /\ IsText("event_data_type", "Unknown")
    /\ IsText("event_data_value", "{\"Foo\": 1}")

\* C3: a ChangeColonyRules row has every region, color, traits column and
\* event_data_starting_health null.
C3_ChangeColonyRulesExclusive ==
    Dispatched("ChangeColonyRules") =>
        \A c \in RegionColumns \cup ColorColumns \cup TraitsColumns
                    \cup StartingHealthColumn : IsNull(c)

\* C3 witness: a ChangeColonyRules row with a description and new rules.
C3_Witness ==
    /\ Dispatched("ChangeColonyRules")
    /\ IsText("event_data_value", "harsher")
    /\ row.event_data_new_rules_mutation_chance = PyInt(5)
    /\ IsNull("event_data_starting_health")

\* C4: a ChangeExtraFoodPerTick row holds the text rendering of the payload's
\* value in event_data_value, never a number, and every region, color,
\* traits, starting_health and new_rules column is null.
C4_ExtraFoodValueIsText ==
    Dispatched("ChangeExtraFoodPerTick") =>
        LET raw == dict_get(Payload, "ChangeExtraFoodPerTick")
        IN  /\ "event_data_value" \in DOMAIN row
            /\ row.event_data_value.t = "str"
            /\ row.event_data_value = py_str(raw)
            /\ raw = PyInt(12) => IsText("event_data_value", "12")
            /\ raw = PyFloat(5, 2) => IsText("event_data_value", "2.5")
            /\ \A c \in RegionColumns \cup ColorColumns \cup TraitsColumns
                        \cup StartingHealthColumn \cup NewRulesColumns : IsNull(c)

\* C4 witness: the number 12 came back as the text "12".
C4_Witness ==
    /\ Dispatched("ChangeExtraFoodPerTick")
    /\ dict_get(Payload, "ChangeExtraFoodPerTick") = PyInt(12)
    /\ IsText("event_data_value", "12")

\* C5: without a payload every event_data_* column is null; an Extinction or
\* NewTopography row has the variant name as type and every other
\* event_data_* column null.
C5_NoPayloadColumnsNull ==
    /\ (outcome = "returned" /\ Payload.t = "null")
           => \A c \in EventDataColumns : IsNull(c)
    /\ \A name \in {"Extinction", "NewTopography"} :
           Dispatched(name) =>
               /\ IsText("event_data_type", name)
               /\ \A c \in EventDataColumns \ {"event_data_type"} : IsNull(c)

\* C5 witness: an Extinction row.
C5_Witness ==
    /\ Dispatched("Extinction")
    /\ IsText("event_data_type", "Extinction")
    /\ IsNull("event_data_value")

(***************************************************************************)
(* Properties of the histogram summarizers                                 *)
(***************************************************************************)
\* the distribution of the histogram under summarization (None when absent)
Dist == dict_get(hist, "distribution")

\* the supplied precomputed average (None when absent)
SuppliedAverage == dict_get(hist, "average")

\* entry i of the distribution parses and has a positive count
PositiveEntry(i) ==
    /\ py_float(PyStr(Dist.v[i][1])).ok
    /\ py_int(Dist.v[i][2]).ok
    /\ py_int(Dist.v[i][2]).val > 0

HasPositiveEntry == isinstance_dict(Dist) /\ \E i \in DOMAIN Dist.v : PositiveEntry(i)

\* the distribution is missing, empty, or holds only non-positive counts
NoPositiveCounts ==
    \/ Dist.t = "null"
    \/ /\ isinstance_dict(Dist)
       /\ \A i \in DOMAIN Dist.v :
             py_int(Dist.v[i][2]).ok /\ py_int(Dist.v[i][2]).val <= 0

\* the values of the distribution that have a positive count
Support == {py_float(PyStr(Dist.v[i][1])).val : i \in {j \in DOMAIN Dist.v : PositiveEntry(j)}}

\* column of the numeric summary
Num(suffix) == row[NumericPrefix \o suffix]

\* column of the boolean summary
Boo(suffix) == row[BooleanPrefix \o suffix]

\* sum of count over the positive entries from i on
RECURSIVE PositiveCountFrom(_)
PositiveCountFrom(i) ==
    IF i > Len(Dist.v) THEN 0
    ELSE (IF PositiveEntry(i) THEN py_int(Dist.v[i][2]).val ELSE 0)
         + PositiveCountFrom(i + 1)

\* sum of value * count over the positive entries from i on
RECURSIVE PositiveWeightFrom(_)
PositiveWeightFrom(i) ==
    IF i > Len(Dist.v) THEN PyFloat(0, 1)
    ELSE float_add(IF PositiveEntry(i)
                   THEN float_times(py_float(PyStr(Dist.v[i][1])).val,
                                    py_int(Dist.v[i][2]).val)
                   ELSE PyFloat(0, 1),
                   PositiveWeightFrom(i + 1))

\* sum(value * count) / sum(count) over exactly the positive entries
WeightedMean == float_over(PositiveWeightFrom(1), PositiveCountFrom(1))

\* C6: for a missing, empty or all-non-positive distribution the numeric
\* summarizer returns null mean, avg, p50, p90, p99 (whatever average is
\* supplied) and was_cut / unique_values_count as supplied, defaulting to
\* false / null.
C6_EmptyHistogramAllNull ==
    (outcome # "pending" /\ NoPositiveCounts) =>
        /\ outcome = "returned"
        /\ \A x \in {"_mean", "_avg", "_p50", "_p90", "_p99"} : Num(x) = None
        /\ Num("_was_cut") = (IF dict_has(hist, "was_cut")
                              THEN dict_get(hist, "was_cut") ELSE PyBool(FALSE))
        /\ Num("_unique_values_count") =
               (IF dict_has(hist, "unique_values_count")
                THEN dict_get(hist, "unique_values_count") ELSE None)

\* C6 witness: only non-positive counts, an average supplied, mean still null.
C6_Witness ==
    /\ outcome = "returned"
    /\ NoPositiveCounts
    /\ isinstance_dict(Dist) /\ Len(Dist.v) > 0
    /\ SuppliedAverage = PyFloat(3, 4)
    /\ use_hist_average
    /\ Num("_mean") = None

\* C7: with a positive-count entry, p50 <= p90 <= p99 and each percentile is
\* a value of the distribution that has a positive count.
C7_PercentilesMonotone ==
    (outcome = "returned" /\ HasPositiveEntry) =>
        /\ \A x \in {"_p50", "_p90", "_p99"} : Num(x) \in Support
        /\ float_le(Num("_p50"), Num("_p90"))
        /\ float_le(Num("_p90"), Num("_p99"))

\* C7 witness: three distinct percentiles from a distribution written in
\* descending key order.
C7_Witness ==
    /\ outcome = "returned"
    /\ HasPositiveEntry
    /\ Dist.v[1][1] = IntText(MaxValue)
    /\ float_lt(Num("_p50"), Num("_p90"))
    /\ float_lt(Num("_p90"), Num("_p99"))

\* C8: with a positive-count entry and no average supplied, the mean is
\* sum(value * count) / sum(count) over exactly the positive-count entries.
C8_WeightedMean ==
    (outcome = "returned" /\ HasPositiveEntry /\ SuppliedAverage.t = "null") =>
        /\ Num("_mean") = WeightedMean
        /\ Dist = PyDict(<< <<"1", PyInt(1)>>, <<"3", PyInt(3)>> >>)
              => Num("_mean") = PyFloat(5, 2)

\* C8 witness: the distribution {1: 1, 3: 3} gave the mean 2.5.
C8_Witness ==
    /\ outcome = "returned"
    /\ Dist = PyDict(<< <<"1", PyInt(1)>>, <<"3", PyInt(3)>> >>)
    /\ SuppliedAverage.t = "null"
    /\ Num("_mean") = PyFloat(5, 2)

\* C9: with a positive-count entry, a supplied non-null average (0 included)
\* and use_hist_average set, the mean is the supplied average; and the avg
\* column always equals the mean column.
C9_SuppliedAverageWins ==
    /\ outcome = "returned" => Num("_avg") = Num("_mean")
    /\ (outcome = "returned" /\ HasPositiveEntry /\ use_hist_average
            /\ SuppliedAverage.t # "null")
           => Num("_mean") = py_float(SuppliedAverage).val

\* C9 witness: the supplied average 0 was returned although the weighted
\* mean is not 0.
C9_Witness ==
    /\ outcome = "returned"
    /\ HasPositiveEntry
    /\ use_hist_average
    /\ SuppliedAverage = PyInt(0)
    /\ Num("_mean") = PyFloat(0, 1)
    /\ WeightedMean # PyFloat(0, 1)

\* the histogram with only the "0" and "1" entries and no other field
CountsOnly ==
    hist_of(IF isinstance_dict(Dist)
            THEN PyDict(SelectSeq(Dist.v, LAMBDA e : e[1] \in {"0", "1"}))
            ELSE Absent,
            Absent, Absent, Absent)

\* C10: the boolean summarizer derives true_fraction from the counts under
\* "1" and "0" alone (a supplied average does not change it); the average
\* column is the supplied average when there is one, true_fraction otherwise.
C10_FractionFromCountsOnly ==
    outcome = "returned" =>
        /\ Boo("_true_fraction") =
               summarize_boolean_hist(CountsOnly, "1", "0", BooleanPrefix)
                   .cols[BooleanPrefix \o "_true_fraction"]
        /\ Boo("_average") =
               (IF SuppliedAverage.t # "null" THEN py_float(SuppliedAverage).val
                ELSE Boo("_true_fraction"))

\* C10 witness: {0: 1, 1: 1} with supplied average 0.75 gave average 0.75
\* and true_fraction 0.5.
C10_Witness ==
    /\ outcome = "returned"
    /\ Dist = PyDict(<< <<"0", PyInt(1)>>, <<"1", PyInt(1)>> >>)
    /\ SuppliedAverage = PyFloat(3, 4)
    /\ Boo("_average") = PyFloat(3, 4)
    /\ Boo("_true_fraction") = PyFloat(1, 2)

\* the count read under a key of the distribution: 0 when the key is missing
\* or its count does not convert to an integer
CountUnder(key) ==
    IF isinstance_dict(Dist) /\ dict_has(Dist, key)
          /\ py_int(dict_get(Dist, key)).ok
    THEN py_int(dict_get(Dist, key)).val
    ELSE 0

WithoutNonPositive ==
    IF isinstance_dict(Dist)
    THEN PyDict([i \in DOMAIN hist.v |->
                    IF hist.v[i][1] = "distribution"
                    THEN <<"distribution",
                           PyDict(SelectSeq(Dist.v,
                                            LAMBDA e : ~(py_int(e[2]).ok
                                                         /\ py_int(e[2]).val <= 0)))>>
                    ELSE hist.v[i]])
    ELSE hist

\* C12: each summarizer (numeric, boolean, color) returns for a histogram
\* what it returns for the same histogram without its non-positive-count
\* entries.
C12_NonPositiveDiscarded ==
    outcome = "returned" =>
        /\ (NumericPrefix \o "_mean") \in DOMAIN row =>
               row = summarize_numeric_hist(WithoutNonPositive, NumericPrefix,
                                            use_hist_average).cols
        /\ (BooleanPrefix \o "_true_count") \in DOMAIN row =>
               row = summarize_boolean_hist(WithoutNonPositive, "1", "0",
                                            BooleanPrefix).cols
        /\ "original_color_dominant" \in DOMAIN row =>
               row = summarize_original_color_hist(WithoutNonPositive, TopN).cols

\* position in the distribution of the entries the color ranking keeps
RankedEntries ==
    {i \in DOMAIN Dist.v : py_int(Dist.v[i][2]).ok /\ py_int(Dist.v[i][2]).val > 0}

\* rank of a kept entry: one more than the number of kept entries with a
\* larger count, or with the same count and an earlier position
RankOf(i) ==
    1 + Cardinality({j \in RankedEntries :
                        \/ py_int(Dist.v[j][2]).val > py_int(Dist.v[i][2]).val
                        \/ /\ py_int(Dist.v[j][2]).val = py_int(Dist.v[i][2]).val
                           /\ j < i})

\* C13: for every rank 1..5 the color summarizer emits the color and count
\* of the entry of that rank (count descending, equal counts in input
\* order), null in both columns when no entry has the rank; the dominant pair
\* equals the rank-1 pair.
C13_ColorRanking ==
    (outcome = "returned" /\ "original_color_dominant" \in DOMAIN row) =>
        /\ \A r \in 1 .. 5 :
               /\ top_column(r) \in DOMAIN row
               /\ top_count_column(r) \in DOMAIN row
               /\ IF isinstance_dict(Dist) /\ \E i \in RankedEntries : RankOf(i) = r
                  THEN LET i == CHOOSE j \in RankedEntries : RankOf(j) = r
                       IN  /\ row[top_column(r)] = PyStr(Dist.v[i][1])
                           /\ row[top_count_column(r)] = PyInt(py_int(Dist.v[i][2]).val)
                  ELSE /\ row[top_column(r)] = None
                       /\ row[top_count_column(r)] = None
        /\ row.original_color_dominant = row["original_color_top1"]
        /\ row.original_color_dominant_count = row["original_color_top1_count"]
        /\ Dist = PyDict(<< <<"1_2_3", PyInt(5)>>, <<"4_5_6", PyInt(9)>>,
                            <<"7_8_9", PyInt(1)>> >>)
              => /\ row["original_color_top1"] = PyStr("4_5_6")
                 /\ row["original_color_top1_count"] = PyInt(9)
                 /\ row["original_color_top2"] = PyStr("1_2_3")
                 /\ row["original_color_top3"] = PyStr("7_8_9")
                 /\ row["original_color_top4"] = None
                 /\ row["original_color_top5_count"] = None
                 /\ row.original_color_dominant = PyStr("4_5_6")

\* C13 witness: more than five colors ranked, written in descending key
\* order, the first two ranks tied on the count.
C13_Witness ==
    /\ outcome = "returned"
    /\ isinstance_dict(Dist)
    /\ Cardinality(RankedEntries) > 5
    /\ Dist.v[1][1] = ColorKey(MaxColors)
    /\ row["original_color_top1_count"] = row["original_color_top2_count"]
    /\ row["original_color_top5"] # None

\* the entries of the distribution that parse and have a positive count, as
\* [value, count] records in the order of the distribution
PositiveItems ==
    LET parsed == [i \in DOMAIN Dist.v |->
                      [value |-> py_float(PyStr(Dist.v[i][1])),
                       count |-> py_int(Dist.v[i][2])]]
        kept   == SelectSeq(parsed, LAMBDA e : e.value.ok /\ e.count.ok /\ e.count.val > 0)
    IN  [i \in DOMAIN kept |-> [value |-> kept[i].value.val, count |-> kept[i].count.val]]

\* sum of count over the items from i on whose value is <= v
RECURSIVE CountAtMost(_, _, _)
CountAtMost(items, v, i) ==
    IF i > Len(items) THEN 0
    ELSE (IF float_le(items[i].value, v) THEN items[i].count ELSE 0)
         + CountAtMost(items, v, i + 1)

\* the percentile columns with their p as pn / pd
Percentiles == {<<"_p50", 1, 2>>, <<"_p90", 9, 10>>, <<"_p99", 99, 100>>}

\* C23: with a positive-count entry, each of p50, p90, p99 is the smallest
\* value v of the positive-count support such that the counts of all support
\* values <= v add up to at least total_count * p; some support value always
\* reaches the threshold, so the fallback to the maximum never decides.
C23_PercentileIsQuantile ==
    (outcome = "returned" /\ HasPositiveEntry) =>
        LET items == PositiveItems
            values == {items[i].value : i \in DOMAIN items}
            total == PositiveCountFrom(1)
            upto == [v \in values |-> CountAtMost(items, v, 1)]
        IN  \A q \in Percentiles :
                /\ \E v \in values : upto[v] * q[3] >= total * q[2]
                /\ Num(q[1]) \in values
                /\ upto[Num(q[1])] * q[3] >= total * q[2]
                /\ \A u \in values :
                      float_lt(u, Num(q[1])) => upto[u] * q[3] < total * q[2]

\* C23 witness: the running count meets the p50 threshold exactly at a value
\* below the maximum, in a distribution not written in ascending key order.
C23_Witness ==
    /\ outcome = "returned"
    /\ HasPositiveEntry
    /\ Dist.v[1][1] = IntText(MaxValue)
    /\ CountAtMost(PositiveItems, Num("_p50"), 1) * 2 = PositiveCountFrom(1)
    /\ float_lt(Num("_p50"), Num("_p99"))

(***************************************************************************)
(* Properties of snapshot_to_row                                           *)
(***************************************************************************)
NumericSuffixes ==
    {"_mean", "_avg", "_p50", "_p90", "_p99", "_was_cut", "_unique_values_count"}

BooleanSuffixes ==
    {"_true_count", "_false_count", "_true_fraction", "_average", "_was_cut",
     "_unique_values_count"}

ColorSummaryColumns ==
    {"original_color_was_cut", "original_color_unique_values_count",
     "original_color_dominant", "original_color_dominant_count"}
        \cup {top_column(i) : i \in 1 .. 5}
        \cup {top_count_column(i) : i \in 1 .. 5}

\* the fixed snapshot schema of the data model
SnapshotSchema ==
    {"colony_id", "tick", "created_at_utc", "colony_width", "colony_height",
     "creatures_count"}
        \cup {m \o x : m \in {"creature_size", "health", "food", "age"},
                       x \in NumericSuffixes}
        \cup {m \o x : m \in {"can_kill", "can_move"}, x \in BooleanSuffixes}
        \cup ColorSummaryColumns

\* the value is missing, null or a mapping
MissingOrMapping(x) == x.t = "null" \/ isinstance_dict(x)

\* the "histograms" of the snapshot under normalization (None when absent)
Histograms == dict_get(snapshot, "histograms")

\* meta, histograms and every metric sub-object are missing, null or a
\* mapping, a metric's distribution likewise, its average missing, null or a
\* number
SubObjectsMissingOrWellFormed ==
    /\ MissingOrMapping(dict_get(snapshot, "meta"))
    /\ MissingOrMapping(Histograms)
    /\ isinstance_dict(Histograms) =>
          \A i \in DOMAIN Histograms.v :
             LET h == Histograms.v[i][2]
             IN  /\ MissingOrMapping(h)
                 /\ isinstance_dict(h) =>
                       /\ MissingOrMapping(dict_get(h, "distribution"))
                       /\ dict_get(h, "average").t \in {"null", "int", "float"}

\* C14: snapshot_to_row of either script returns a row whose column set is
\* the fixed snapshot schema, ranked color columns included; it returns for
\* every snapshot whose meta, histograms or metric sub-objects are missing or
\* null, with null for what could not be extracted.
C14_FixedSnapshotSchema ==
    /\ outcome = "returned" => DOMAIN row = SnapshotSchema
    /\ (outcome # "pending" /\ SubObjectsMissingOrWellFormed)
           => outcome = "returned"
    /\ (outcome = "returned" /\ dict_get(snapshot, "meta").t = "null")
           => /\ row.created_at_utc = None
              /\ row.colony_width = None
              /\ row.colony_height = None
    /\ (outcome = "returned" /\ Histograms.t = "null")
           => /\ \A m \in {"creature_size", "health", "food", "age"} :
                    \A x \in {"_mean", "_avg", "_p50", "_p90", "_p99"} :
                       row[m \o x] = None
              /\ \A m \in {"can_kill", "can_move"} :
                    row[m \o "_true_fraction"] = None

\* C15: whatever the shape of the sub-fields of a parsed object, the
\* normalizer returns a row: it never raises.
C15_NeverRaises == outcome # "raised"

(***************************************************************************)
(* Properties of the ingestion driver                                      *)
(***************************************************************************)
\* fetch i produced a row whose colony_id is not the colony of its key prefix
Mismatched(i) ==
    fetched[i].normalized /\ fetched[i].declared # PyStr(fetched[i].colony)

\* fetch i failed: the object was unreadable or was no valid JSON
FetchFailed(i) == fetched[i].got \in {"fetch", "json"}

\* the tables written or uploaded so far for the colony and pipeline
TablesOf(c, pl) ==
    {t \in written \cup uploaded : t.colony = c /\ t.pipeline = pl}

\* C16: once an object's row has a colony_id other than the colony of its
\* key prefix, no further object is fetched, the table being accumulated is
\* neither written nor uploaded, and main returns failure.
C16_MismatchIsFatal ==
    \A i \in DOMAIN fetched :
        Mismatched(i) =>
            /\ i = Len(fetched)
            /\ pc = "done"
            /\ main_result = "1"
            /\ TablesOf(fetched[i].colony, fetched[i].pipeline) = {}

\* C16 witness: a mismatch on the second colony, after the first colony's
\* tables were written.
C16_Witness ==
    /\ Len(fetched) > 1
    /\ Mismatched(Len(fetched))
    /\ written # {}
    /\ main_result = "1"

\* C17: every row of every table written or uploaded for a colony carries
\* that colony's id.
C17_RowsCarryColonyId ==
    \A t \in written \cup uploaded :
        \A i \in DOMAIN t.rows : t.rows[i].colony_id = PyStr(t.colony)

\* C17 witness: a table of several rows was uploaded for colony c2.
C17_Witness ==
    \E t \in uploaded :
        /\ t.colony = "c2"
        /\ Len(t.rows) > 1
        /\ t.rows[2].colony_id = PyStr("c2")

\* C18: once fetching or parsing an object of a colony failed, nothing more
\* is fetched, main has returned failure, and no table of that colony, stats
\* or events, is written or uploaded.
C18_NoPartialOutput ==
    \A i \in DOMAIN fetched :
        FetchFailed(i) =>
            /\ i = Len(fetched)
            /\ pc = "done"
            /\ main_result = "1"
            /\ \A t \in written \cup uploaded : t.colony # fetched[i].colony

C20_MainResult ==
    /\ (pc = "done") = (main_result # "running")
    /\ pc = "done" => main_result = (IF error = "none" THEN "0" ELSE "1")
    /\ (\E i \in DOMAIN fetched : FetchFailed(i) \/ Mismatched(i) \/ ~fetched[i].normalized)
           => main_result = "1"
    /\ main_result = "0" =>
           /\ ci = Len(colony_ids)
           /\ \A i \in DOMAIN listed :
                 listed[i].count > 0 =>
                    \E t \in written :
                       /\ t.colony = listed[i].colony
                       /\ t.pipeline = listed[i].pipeline
                       /\ Len(t.rows) = listed[i].count
                       /\ upload => t \in uploaded

\* C20 witness: the Parquet write failed and main returned 1.
C20_Witness ==
    /\ pc = "done"
    /\ error = "write"
    /\ main_result = "1"

DecompressionFails ==
    \/ body.t = "gzip" /\ body.defect # "none"
    \/ body.t = "bytes"
    \/ body.t = "text" /\ body.v # ""

\* the body is, as it stands, the UTF-8 text of a JSON value
RawIsJson == body.t = "text" /\ \E d \in JsonDocuments : json_dumps(d).v = body.v

\* C22: read_s3_json tries gzip decompression first and, on every kind of
\* decompression failure (no gzip data, damaged gzip data, a gzip stream
\* cut short), goes on to parse the raw body as plain UTF-8 JSON text; only
\* an unreadable object or a body that yields no valid JSON makes it fail.
C22_FallbackOnEveryFailure ==
    outcome # "pending" /\ exception # "ClientError" =>
        /\ DecompressionFails => decoded_by = "plain"
        /\ DecompressionFails /\ RawIsJson =>
              outcome = "returned" /\ json_dumps(document).v = body.v
        /\ outcome = "raised" => exception \in {"ValueError", "UnicodeDecodeError"}

(***************************************************************************)
(* Further properties of event_to_row                                      *)
(***************************************************************************)
\* the value under "CreateCreature" of the payload
CreateData == dict_get(Payload, "CreateCreature")

\* element k of the CreateCreature list (None when there is none)
CreateElement(k) ==
    IF isinstance_list(CreateData) /\ Len(CreateData.v) >= k
    THEN CreateData.v[k] ELSE None

\* the value under key k of element i of the list (None when there is none)
CreatePart(i, k) ==
    IF isinstance_dict(CreateElement(i)) THEN dict_get(CreateElement(i), k) ELSE None

\* a CreateCreature event: the payload carries the key, and the rest of the
\* event is well-formed
IsCreateCreature ==
    /\ isinstance_dict(Payload) /\ dict_has(Payload, "CreateCreature")
    /\ dict_get(event, "rules").t \in {"null", "dict"}

\* C24: for every CreateCreature event, whatever is missing or no mapping
\* among the payload list, the region element, the region's Ellipse value,
\* the params element, color and traits, event_to_row returns a row whose
\* corresponding region, color, traits and starting_health columns are null,
\* and whose event_data_value is null.
C24_CreateCreatureTolerant ==
    (outcome # "pending" /\ IsCreateCreature) =>
        /\ outcome = "returned"
        /\ IsNull("event_data_value")
        /\ ~isinstance_dict(CreatePart(1, "Ellipse")) =>
              \A c \in RegionColumns : IsNull(c)
        /\ ~isinstance_dict(CreatePart(2, "color")) =>
              \A c \in ColorColumns : IsNull(c)
        /\ ~isinstance_dict(CreatePart(2, "traits")) =>
              \A c \in TraitsColumns : IsNull(c)
        /\ ~isinstance_dict(CreateElement(2)) =>
              \A c \in StartingHealthColumn : IsNull(c)

\* the known variant keys in the order the dispatch chain tests for them
VariantPriority ==
    <<"CreateCreature", "ChangeExtraFoodPerTick", "Extinction", "NewTopography",
      "ChangeColonyRules">>

\* the known variant keys the payload carries
VariantsPresent == {k \in KnownVariants : dict_has(Payload, k)}

\* the key present that comes first in the priority order
SelectedVariant ==
    VariantPriority[CHOOSE i \in DOMAIN VariantPriority :
        /\ VariantPriority[i] \in VariantsPresent
        /\ \A j \in 1 .. (i - 1) : VariantPriority[j] \notin VariantsPresent]

\* the event with its payload cut down to the selected variant's entry
SelectedVariantAlone ==
    PyDict([i \in DOMAIN event.v |->
               IF event.v[i][1] = "event_data"
               THEN <<"event_data",
                      PyDict(<< <<SelectedVariant,
                                  dict_get(Payload, SelectedVariant)>> >>)>>
               ELSE event.v[i]])

\* C27: when the payload mapping carries more than one known variant key,
\* event_to_row selects one variant by the fixed priority CreateCreature >
\* ChangeExtraFoodPerTick > Extinction > NewTopography > ChangeColonyRules,
\* whatever the order of the keys in the payload, and the row is the row of
\* an event carrying that variant alone.
C27_VariantPriority ==
    (outcome # "pending" /\ isinstance_dict(Payload)
                         /\ Cardinality(VariantsPresent) > 1) =>
        LET alone == event_to_row(SelectedVariantAlone)
        IN  /\ outcome = "returned" <=> ~alone.raised
            /\ outcome = "returned" =>
                  /\ IsText("event_data_type", SelectedVariant)
                  /\ row = alone.cols

\* C27 witness: ChangeColonyRules comes first in the payload and NewTopography
\* second, and the row is the NewTopography row.
C27_Witness ==
    /\ outcome = "returned"
    /\ isinstance_dict(Payload)
    /\ Len(Payload.v) = 2
    /\ Payload.v[1][1] = "ChangeColonyRules"
    /\ Payload.v[2][1] = "NewTopography"
    /\ IsText("event_data_type", "NewTopography")
    /\ \A c \in NewRulesColumns : IsNull(c)

\* C28: in every row event_to_row returns, for any event object,
\* event_data_value is null or a text value, never a number, a boolean, a
\* list or a mapping.
C28_ValueNullOrText ==
    outcome = "returned" =>
        /\ "event_data_value" \in DOMAIN row
        /\ row["event_data_value"].t \in {"null", "str"}

(***************************************************************************)
(* Further properties of the ingestion driver                              *)
(***************************************************************************)
\* the get_object calls made so far for the colony and pipeline, in order
FetchesOf(c, pl) == SelectSeq(fetched, LAMBDA f : f.colony = c /\ f.pipeline = pl)

\* the keys are in strictly ascending order
Ascending(ks) == \A i \in 1 .. (Len(ks) - 1) : ks[i] < ks[i + 1]

\* fetch f read an object that parsed, normalized and passed the colony-id
\* check
Accepted(f) ==
    f.got = "parsed" /\ f.normalized /\ f.row.colony_id = PyStr(f.colony)

\* C25: for each colony and pipeline the listed keys are fetched in
\* ascending order, whatever order the store listed them in; the table is
\* written once, after every listed key was fetched, normalized and accepted
\* by the colony-id check, and holds one row per listed key in key order.
C25_OrderedBatchedWrite ==
    \A i \in DOMAIN listed :
        LET l  == listed[i]
            fs == FetchesOf(l.colony, l.pipeline)
            ts == {t \in written : t.colony = l.colony /\ t.pipeline = l.pipeline}
        IN  /\ Ascending(l.keys)
            /\ {l.keys[k] : k \in DOMAIN l.keys} = {l.stored[k] : k \in DOMAIN l.stored}
            /\ Len(fs) <= l.count
            /\ \A k \in DOMAIN fs : fs[k].key = l.keys[k]
            /\ Cardinality(ts) <= 1
            /\ \A t \in ts :
                  /\ Len(fs) = l.count
                  /\ Len(t.rows) = l.count
                  /\ \A k \in DOMAIN fs : Accepted(fs[k]) /\ t.rows[k] = fs[k].row

\* C25 witness: the store listed two keys in descending order and the table
\* of their two rows was written.
C25_Witness ==
    \E i \in DOMAIN listed :
        /\ listed[i].count = 2
        /\ listed[i].stored[1] > listed[i].stored[2]
        /\ \E t \in written :
              /\ t.colony = listed[i].colony
              /\ t.pipeline = listed[i].pipeline
              /\ Len(t.rows) = 2

\* C26: a table is uploaded only when the upload flag is set, and only after
\* that table was written locally in the same run; without the flag nothing
\* is ever uploaded.
C26_UploadOnlyWrittenTables ==
    /\ uploaded \subseteq written
    /\ ~upload => uploaded = {}
    /\ pc \in {"upload_stats", "upload_events"} =>
          upload /\ table_of(colony_id, IF pc = "upload_stats" THEN "stats" ELSE "events", rows) \in written

\* C26 witness: with the flag set, the stats table of a colony was uploaded
\* and its events table is written and about to be uploaded.
C26_Witness ==
    /\ upload
    /\ pc = "upload_events"
    /\ uploaded # {}
    /\ uploaded # written

\* C29: an object whose payload has no colony_instance_id, missing or null,
\* and otherwise normalizes, gives a row with colony_id null; the colony-id
\* check takes that for a mismatch and the run aborts with failure: nothing
\* more is fetched, and no row with a null colony_id is kept or written.
C29_MissingColonyIdIsFatal ==
    /\ \A i \in DOMAIN fetched :
          LET f == fetched[i]
          IN  (f.got = "parsed" /\ isinstance_dict(f.doc) /\ f.normalized
                    /\ dict_get(f.doc, "colony_instance_id") = None) =>
                  /\ f.row.colony_id = None
                  /\ i = Len(fetched)
                  /\ pc = "done"
                  /\ error = "mismatch"
                  /\ main_result = "1"
                  /\ TablesOf(f.colony, f.pipeline) = {}
    /\ \A k \in DOMAIN rows : rows[k].colony_id # None
    /\ \A t \in written \cup uploaded :
          \A k \in DOMAIN t.rows : t.rows[k].colony_id # None

\* C29 witness: after an accepted object, an event whose colony_instance_id
\* is null aborted the run.
C29_Witness ==
    /\ Len(fetched) > 1
    /\ LET f == fetched[Len(fetched)]
       IN  /\ f.pipeline = "events"
           /\ isinstance_dict(f.doc)
           /\ dict_has(f.doc, "colony_instance_id")
           /\ dict_get(f.doc, "colony_instance_id") = None
    /\ Accepted(fetched[Len(fetched) - 1])
    /\ main_result = "1"

\* the place of the colony in the ascending order of colony ids
ColonyRank(c) == CHOOSE i \in DOMAIN ColonyOrder : ColonyOrder[i] = c

\* every listed object was fetched exactly once and accepted, and every
\* listing with keys has its table written
AllProcessed ==
    /\ ci = Len(colony_ids)
    /\ \A n \in DOMAIN colony_ids :
          \E i \in DOMAIN listed :
             listed[i].colony = colony_ids[n] /\ listed[i].pipeline = "stats"
    /\ \A i \in DOMAIN listed :
          LET l == listed[i]
          IN  /\ \A k \in DOMAIN l.stored :
                    Cardinality({j \in DOMAIN fetched :
                        /\ fetched[j].colony = l.colony
                        /\ fetched[j].pipeline = l.pipeline
                        /\ fetched[j].key = l.stored[k]}) = 1
              /\ l.count > 0 =>
                    \E t \in written :
                       t.colony = l.colony /\ t.pipeline = l.pipeline
                          /\ Len(t.rows) = l.count
    /\ \A j \in DOMAIN fetched : Accepted(fetched[j])

\* colonies are taken in ascending order of id, and within a colony every
\* stats object is fetched and the stats table written before the first
\* event object is fetched
ProcessedInOrder ==
    /\ \A m, n \in DOMAIN colony_ids :
          m < n => ColonyRank(colony_ids[m]) < ColonyRank(colony_ids[n])
    /\ \A i, j \in DOMAIN listed :
          i < j =>
             \/ ColonyRank(listed[i].colony) < ColonyRank(listed[j].colony)
             \/ /\ listed[i].colony = listed[j].colony
                /\ listed[i].pipeline = "stats"
                /\ listed[j].pipeline = "events"
    /\ \A j \in DOMAIN fetched :
          fetched[j].pipeline = "events" =>
             /\ \A i \in DOMAIN fetched :
                   (fetched[i].colony = fetched[j].colony
                        /\ fetched[i].pipeline = "stats") => i < j
             /\ \E i \in DOMAIN listed :
                   /\ listed[i].colony = fetched[j].colony
                   /\ listed[i].pipeline = "stats"
                   /\ Len(FetchesOf(fetched[j].colony, "stats")) = listed[i].count
                   /\ listed[i].count > 0 =>
                         \E t \in written :
                            t.colony = fetched[j].colony /\ t.pipeline = "stats"

\* C30: a run of main over finitely many colonies and objects terminates
\* with return code 0 or 1; it returns 0 only if every object of every
\* processed colony was fetched exactly once and accepted and every non-empty
\* table was written; colonies are processed in ascending order of id, and
\* within a colony the stats objects are processed and the stats table
\* written before any event object is fetched.
C30_TerminatesInOrder ==
    /\ <>(pc = "done" /\ main_result \in {"0", "1"})
    /\ [](main_result = "0" => AllProcessed)
    /\ []ProcessedInOrder

\* C30 witness: both colonies were processed, stats and events, and main
\* returned 0.
C30_Witness ==
    /\ main_result = "0"
    /\ colony_ids = ColonyOrder
    /\ Cardinality(written) = 2 * Len(ColonyOrder)
    /\ Len(fetched) > 2 * Len(ColonyOrder)

====
